---- MODULE Spec2Model ----
(***************************************************************************)
(* Verification model of the volume migrator.                              *)
(*                                                                         *)
(*   Part I   HostTrustStore  (internal/ssh/hostkey.go)                    *)
(*   Part II  MigrationOrchestrator (internal/migrator/migrator.go,        *)
(*            import.go, cleanup.go, the export code, cmd/main.go)         *)
(*   Part III SudoDetector (internal/docker/volume.go)                     *)
(*   Part IV  ssh.Client: NewClient and the remote file operations         *)
(*            (internal/ssh/client.go, the shell escaping code)            *)
(*   Part V   runMigration and ValidateConfig (cmd/main.go, migrator.go)   *)
(*   Part VI  volume discovery (internal/docker/volume.go)                 *)
(*   Part VII package shell: ShellEscape, SanitizePathForRemote,           *)
(*            ValidateVolumeName                                           *)
(*   Part VIII managed docker commands: SudoDetector.WrapCommand and       *)
(*            ssh Client.RunDockerCommand                                  *)
(*   Part IX  space estimator (internal/utils/diskspace.go)                *)
(*   Part X   the remote staging directory through Transfer, Import and    *)
(*            Cleanup (migrator.go, import.go, cleanup.go, ssh/client.go)  *)
(*                                                                         *)
(* Each part has its own specification (SpecTrust, SpecMigrate,            *)
(* SpecDetect, SpecSession, SpecMain, SpecDiscover, SpecShell, SpecWrap,   *)
(* SpecEstimate, SpecStage); the variables of the other parts keep their   *)
(* initial value.                                                          *)
(***************************************************************************)
EXTENDS Integers, Sequences, FiniteSets, TLC

(***************************************************************************)
(* Bounds                                                                  *)
(***************************************************************************)
\* number of distinct host names presented to the verification callback
NumHosts == 1
\* number of distinct public keys
NumKeys == 2
\* records the trust file may hold before the first run
MaxInitLines == 1
\* verifications accepted by accept-new callbacks in one behaviour
MaxAccept == 2
\* volumes discovered on the local host
NumVolumes == 2
\* largest total volume size and largest available space (in bytes)
MaxSpace == 2

\* longest path (in symbols) given to a remote file operation
MaxPathLen == 3
\* goroutines calling Detect / IsRequired on one detector
NumCallers == 2
\* Detect calls one caller makes
MaxCalls == 2
\* distinct containers, and the longest container list given to discovery
NumContainers == 2
MaxContainerList == 2
\* volume mounts one container has
MaxMounts == 1
\* longest string (in characters) given to the functions of package shell
MaxStrLen == 4
\* longest remote staging path (in symbols)
MaxStagingLen == 5
\* largest total size (in bytes) given to the space estimator, besides the
\* sizes of its tests
MaxTotal == 100

Hosts == 1..NumHosts
Keys == 1..NumKeys
Records == Hosts \X Keys

VARIABLES
    \* ---- Part I: HostTrustStore ----
    khExists,     \* the known_hosts file exists on disk
    khLines,      \* its records, in file order: sequence of <<host, key>>
    cb,           \* the callback GetCallback returned last (one verifier per run)
    lastOp,       \* the last trust-store operation and its outcome
    initLines,    \* the records the file held before the first run
    acceptLog,    \* <<host, key>> of every verification an accept-new callback accepted
    \* ---- Part II: MigrationOrchestrator ----
    cfg,          \* Config: interactive, dryRun, force, noCleanup, tempDirGiven
    pc,           \* position of Migrate
    ret,          \* the error Migrate returns ("none" while running, "ok" for nil)
    primary,      \* the phase whose failure made Migrate return ("none" if none)
    phaseLog,     \* phases started, in order
    phaseOk,      \* phases that succeeded
    volumes,      \* names of the volumes to migrate (after Discover / Select)
    badNames,     \* the names among them that ValidateVolumeName rejects
    archivePaths, \* archivePaths map of ExportVolumes: names exported so far
    transferred,  \* names whose archive TransferFile has sent
    imported,     \* names ImportVolume has created and populated
    remoteVols,   \* volumes this run created on the remote and did not remove
    calls,        \* commands run per volume: export, transfer, create, populate, remove
    importErr,    \* error ImportVolume returned per volume ("none" if not returned)
    fs,           \* staging directories: existence and mkdir / remove calls
    deferred,     \* the cleanup closure is registered (migrator.go:299)
    cleanupRes,   \* outcome of CleanupLocal / CleanupRemote
    sshOpen,      \* the SSH session is connected and not closed
    cancelled,    \* the context passed to NewMigrator is cancelled
    cancelPhase,  \* the phase in flight when it was cancelled
    afterCancel,  \* volumes exported, transferred or imported after the cancel
    dockerSudo,   \* the docker client's SudoDetector: unknown, notrequired, required
    sshAttempted, \* ssh.NewClient has been called
    space,        \* what the space check found on each side (see NoSpace)
    clobbered,    \* remote volumes that existed before the job and that it removed
    \* ---- Part III: SudoDetector ----
    sdRequired,   \* sd.required
    sdChecked,    \* sd.checked
    sdMu,         \* sd.mu: 0 when unlocked, else the caller holding it
    sdPc,         \* position of each caller: idle, lock, probe1, probe2
    sdCallNo,     \* Detect calls each caller has made
    sdConc,       \* the caller's current call was made before any call returned
    sdSawChecked, \* sd.checked as the caller's current call read it at line 181
    sdRan,        \* probes the caller's current call has run
    sdRet,        \* result of the caller's last call: none, nil, err
    sdReturns,    \* Detect calls that have returned
    sdFirst,      \* the value the detector first resolved to ("none" before)
    sdRead,       \* each caller's last IsRequired: value and whether resolved then
    \* ---- Part IV: ssh.Client ----
    snPc,         \* position of NewClient: new, auth, verifier, callback, dial,
                  \* probe1, probe2, returned
    snReturn,     \* what NewClient returned: none, client, error
    snFailedAt,   \* the step whose failure made NewClient return an error
    snLiteral,    \* the Client is a bare &Client{} not built by NewClient
    snTransport,  \* c.client: none (nil), open, closed
    snRemoteSudo, \* c.remoteSudo as set by detectRemoteSudo: unset, notrequired, required
    snPath,       \* the path the remote file operations are given (RemoteTempDir)
    snOp,         \* the last remote file operation on the Client and its outcome
    \* ---- Part V: runMigration ----
    mnPc,         \* position of runMigration: validate, validated, migrate, done
    mnCfg,        \* the Config built from the flags and arguments
    mnValidateOnly, \* the --validate-only flag
    mnMigrator,   \* NewMigrator has returned a Migrator
    mnRet,        \* what runMigration returned: none, nil, config, migrator, migrate
    \* ---- Part VI: volume discovery ----
    containerNames, \* the container list GetAllVolumesInfo is given
    listed,       \* what ListVolumes returned for each container processed so far
    volumeMap,    \* volumeMap: volume name -> the Container of its VolumeInfo
    dvResult,     \* what GetAllVolumesInfo returned ("none" before): err and the slice
    \* ---- Part VII: package shell ----
    shIn,         \* the string a function of package shell is given
    shOut,        \* the function called and what it returned (see NoShellCall)
    \* ---- Part VIII: managed docker commands ----
    managed,      \* the last command WrapCommand / RunDockerCommand built, per side
    \* ---- Part IX: space estimator ----
    estimate,     \* the size CalculateRequiredSpace is given and what it returned
    \* ---- Part X: remote staging directory ----
    stagingDir,   \* Config.RemoteTempDir
    staged        \* the directory each step used on the remote host (<<>> before it)

trustVars == <<khExists, khLines, cb, lastOp, initLines, acceptLog>>
mig == <<cfg, pc, ret, primary, phaseLog, phaseOk, volumes, badNames, archivePaths,
         transferred, imported, remoteVols, calls, importErr, fs, deferred, cleanupRes, sshOpen,
         cancelled, cancelPhase, afterCancel, dockerSudo, sshAttempted, space, clobbered>>
detVars == <<sdRequired, sdChecked, sdMu, sdPc, sdCallNo, sdConc, sdSawChecked, sdRan,
             sdRet, sdReturns, sdFirst, sdRead>>
\* the variables of the parts after Part II
sessVars == <<snPc, snReturn, snFailedAt, snLiteral, snTransport, snRemoteSudo, snPath,
              snOp>>
mainVars == <<mnPc, mnCfg, mnValidateOnly, mnMigrator, mnRet>>
discVars == <<containerNames, listed, volumeMap, dvResult>>
\* the variables of the parts after Part V
shVars == <<shIn, shOut>>
wrVars == <<managed>>
estVars == <<estimate>>
stageVars == <<stagingDir, staged>>
later == <<discVars, shVars, wrVars, estVars, stageVars>>
ext == <<detVars, sessVars, mainVars, later>>
vars == <<khExists, khLines, cb, lastOp, initLines, acceptLog, mig, ext>>

(***************************************************************************)
(* Part I.  HostTrustStore                                                 *)
(***************************************************************************)
RECURSIVE SeqsUpTo(_, _)
SeqsUpTo(S, n) ==
    IF n = 0 THEN {<<>>}
    ELSE LET shorter == SeqsUpTo(S, n - 1)
         IN  shorter \cup {Append(s, x) : s \in {t \in shorter : Len(t) = n - 1}, x \in S}

LinesToSet(lines) == {lines[i] : i \in 1..Len(lines)}

\* knownhosts.New: the database is the set of records read when the callback
\* is built; later writes to the file are not seen by it.
KnownHostsNew(lines) == LinesToSet(lines)

\* The callback knownhosts.New returns: nil when a record of the host has the
\* key; otherwise a KeyError whose Want lists the host's records ("changed"
\* when Want is non-empty, "unknown" when it is empty).
KnownHostsCheck(db, h, k) ==
    IF <<h, k>> \in db THEN "nil"
    ELSE IF \E r \in db : r[1] = h THEN "keyerror_want"
    ELSE "keyerror_unknown"

NoCallback == [valid |-> FALSE, strict |-> FALSE, accept |-> FALSE, db |-> {}]
NoOp == [op |-> "none", strict |-> FALSE, accept |-> FALSE, host |-> 0, key |-> 0,
         res |-> "none", preExists |-> FALSE, preHost |-> FALSE, preKey |-> FALSE,
         wrote |-> FALSE, created |-> FALSE]

\* GetCallback line 54: the custom accept-new callback is used only when
\* accept-new is set and strict checking is off.
UsesAcceptNewCallback(strict, accept) == accept /\ ~strict

\* Mutant: a missing file is created in every mode.
CreatesMissingFileAlways(strict, exists) == ~exists

\* GetCallback line 62: a missing file is created only when not strict.
CreatesMissingFile(strict, exists) == ~exists /\ ~strict

\* Mutant: the file is opened with O_TRUNC.
createKnownHostsFileTruncating(exists, lines) == <<>>

\* createKnownHostsFile: O_CREATE|O_WRONLY without O_TRUNC; an existing
\* file keeps its content, a new one is empty.
createKnownHostsFile(exists, lines) == IF exists THEN lines ELSE <<>>

\* Mutant: the record is not written.
addHostKeyDropped(lines, h, k) == lines

\* addHostKey: one line "hostname keytype base64key" appended (O_APPEND).
addHostKey(lines, h, k) == Append(lines, <<h, k>>)

\* Outcome of the accept-new callback body (lines 92-120) given the result
\* of the wrapped knownhosts callback and of addHostKey.
AcceptNewResult(check, addOk) ==
    IF check # "nil"
    THEN IF check = "keyerror_want" THEN "changed"
         ELSE IF addOk THEN "ok" ELSE "addfail"
    ELSE "unexpected"   \* line 119: reached with err == nil, returns a non-nil error

\* Mutant: a host without a record is let through.
StrictResultTrusting(check) ==
    CASE check = "keyerror_want" -> "changed"
      [] OTHER -> "ok"

\* Outcome of the plain knownhosts callback (strict and default mode).
StrictResult(check) ==
    CASE check = "nil" -> "ok"
      [] check = "keyerror_want" -> "changed"
      [] OTHER -> "unknown"

OpRecord(op, strict, accept, h, k, res) ==
    [op |-> op, strict |-> strict, accept |-> accept, host |-> h, key |-> k,
     res |-> res, preExists |-> khExists,
     preHost |-> \E r \in LinesToSet(khLines) : r[1] = h,
     preKey |-> <<h, k>> \in LinesToSet(khLines),
     wrote |-> khLines' # khLines, created |-> khExists' # khExists]

\* HostKeyVerifier.GetCallback for a verifier built with (strict, accept).
\* createOk / loadOk: outcome of creating the file and of parsing it.
GetCallback(strict, accept, createOk, loadOk) ==
    LET needCreate == IF UsesAcceptNewCallback(strict, accept)
                      THEN ~khExists
                      ELSE CreatesMissingFile(strict, khExists)
        existsAfter == khExists \/ (needCreate /\ createOk)
        linesAfter == IF needCreate /\ createOk
                      THEN createKnownHostsFile(khExists, khLines) ELSE khLines
        res == IF needCreate /\ ~createOk THEN "createfail"
               ELSE IF ~existsAfter \/ ~loadOk THEN "loadfail"
               ELSE "ok"
    IN  /\ ~needCreate => createOk          \* createOk is read only when creating
        /\ ~existsAfter => loadOk           \* loadOk is read only when the file exists
        /\ khExists' = existsAfter
        /\ khLines' = linesAfter
        /\ cb' = IF res = "ok"
                 THEN [valid |-> TRUE, strict |-> strict, accept |-> accept,
                       db |-> KnownHostsNew(linesAfter)]
                 ELSE NoCallback
        /\ lastOp' = OpRecord("GetCallback", strict, accept, 0, 0, res)
        /\ UNCHANGED <<initLines, acceptLog, mig, ext>>

\* The callback returned by acceptNewKeyCallback, called with (h, k).
AcceptNewCallback(h, k, addOk) ==
    /\ cb.valid /\ UsesAcceptNewCallback(cb.strict, cb.accept)
    /\ Len(acceptLog) < MaxAccept
    /\ UNCHANGED <<khExists, cb, initLines, mig, ext>>
    /\ LET check == KnownHostsCheck(cb.db, h, k)
           res == AcceptNewResult(check, addOk /\ khExists)
       IN  /\ check # "keyerror_unknown" => addOk   \* addOk is read only when adding
           /\ khLines' = IF check = "keyerror_unknown" /\ addOk /\ khExists
                         THEN addHostKey(khLines, h, k) ELSE khLines
           /\ acceptLog' = IF res = "ok" THEN Append(acceptLog, <<h, k>>) ELSE acceptLog
           /\ lastOp' = OpRecord("callback", cb.strict, cb.accept, h, k, res)

\* The knownhosts callback GetCallback returns in strict and default mode.
KnownHostsCallback(h, k) ==
    /\ cb.valid /\ ~UsesAcceptNewCallback(cb.strict, cb.accept)
    /\ UNCHANGED <<khExists, khLines, cb, initLines, acceptLog, mig, ext>>
    /\ lastOp' = OpRecord("callback", cb.strict, cb.accept, h, k,
                          StrictResult(KnownHostsCheck(cb.db, h, k)))

\* createKnownHostsFile called on its own, on a verifier that holds only the
\* path (as TestCreateKnownHostsFile_AlreadyExists does): the file may exist.
CallCreateKnownHostsFile(createOk) ==
    /\ khExists' = (khExists \/ createOk)
    /\ khLines' = IF createOk THEN createKnownHostsFile(khExists, khLines) ELSE khLines
    /\ lastOp' = OpRecord("createKnownHostsFile", FALSE, FALSE, 0, 0,
                          IF createOk THEN "ok" ELSE "createfail")
    /\ UNCHANGED <<cb, initLines, acceptLog, mig, ext>>

Vols == 1..NumVolumes
NoCalls == [op \in {"export", "transfer", "create", "populate", "remove"} |->
               [v \in Vols |-> 0]]
NoDirs == [localDir |-> FALSE, remoteDir |-> FALSE, madeLocal |-> FALSE,
           madeRemote |-> FALSE, mkdirLocal |-> 0, mkdirRemote |-> 0,
           rmLocal |-> 0, rmRemote |-> 0]

\* each side of the space check: none (not looked at), unmeasurable, or the
\* measured available space against the required space: short, equal, more
NoSpace == [local |-> "none", remote |-> "none"]

\* the orchestrator before Migrate is called, for the given configuration
MigFresh(c) ==
    /\ cfg = c
    /\ pc = "start" /\ ret = "none" /\ primary = "none"
    /\ phaseLog = <<>> /\ phaseOk = {}
    /\ volumes = {} /\ badNames = {} /\ archivePaths = {}
    /\ transferred = {} /\ imported = {} /\ remoteVols = {}
    /\ calls = NoCalls
    /\ importErr = [v \in Vols |-> "none"]
    /\ fs = NoDirs
    /\ deferred = FALSE
    /\ cleanupRes = [local |-> "none", remote |-> "none"]
    /\ sshOpen = FALSE
    /\ cancelled = FALSE /\ cancelPhase = "none" /\ afterCancel = 0
    /\ dockerSudo = "unknown" /\ sshAttempted = FALSE /\ space = NoSpace
    /\ clobbered = {}

Callers == 1..NumCallers
NoRead == [done |-> FALSE, val |-> FALSE, resolved |-> FALSE]

\* NewSudoDetector: &SudoDetector{} (required and checked false, mutex free)
DetFresh ==
    /\ sdRequired = FALSE /\ sdChecked = FALSE /\ sdMu = 0
    /\ sdPc = [c \in Callers |-> "idle"]
    /\ sdCallNo = [c \in Callers |-> 0]
    /\ sdConc = [c \in Callers |-> FALSE]
    /\ sdSawChecked = [c \in Callers |-> FALSE]
    /\ sdRan = [c \in Callers |-> 0]
    /\ sdRet = [c \in Callers |-> "none"]
    /\ sdReturns = 0
    /\ sdFirst = "none"
    /\ sdRead = [c \in Callers |-> NoRead]

NoRemoteOp == [op |-> "none", path |-> <<>>, safePath |-> <<>>, res |-> "none",
               cmd |-> <<>>, ran |-> FALSE]

\* before ssh.NewClient is called
SessFresh ==
    /\ snPc = "new" /\ snReturn = "none" /\ snFailedAt = "none"
    /\ snLiteral = FALSE /\ snTransport = "none" /\ snRemoteSudo = "unset"
    /\ snPath = <<>> /\ snOp = NoRemoteOp

\* a port flag: empty, not a number, or a number
PortEmpty == [empty |-> TRUE, number |-> FALSE, value |-> 0]
PortNotNumber == [empty |-> FALSE, number |-> FALSE, value |-> 0]
PortNumber(n) == [empty |-> FALSE, number |-> TRUE, value |-> n]

\* a configuration ValidateConfig accepts: one container, user@host, the
\* flag defaults of main.go with strict host key checking
ValidConfig ==
    [containers |-> <<"c">>, remoteHost |-> <<"a", "@", "a">>, sshPort |-> PortNumber(22),
     tempDir |-> "", remoteTempDir |-> "", strict |-> TRUE, accept |-> FALSE,
     sshKeyPath |-> "", knownHostsFile |-> ""]

\* runMigration has built the Migrator and is calling Migrate
MainFresh ==
    /\ mnPc = "migrate" /\ mnCfg = ValidConfig /\ mnValidateOnly = FALSE
    /\ mnMigrator = TRUE /\ mnRet = "none"

\* the parts after Part II before any of their operations
\* GetAllVolumesInfo has not been called
NoResult == [returned |-> FALSE, err |-> FALSE, volumes |-> <<>>]
DiscFresh ==
    /\ containerNames = <<>> /\ listed = <<>> /\ volumeMap = <<>>
    /\ dvResult = NoResult

\* the parts after Part V before any of their operations
\* no function of package shell has been called
NoShellCall == [fn |-> "none", text |-> <<>>, ok |-> FALSE, err |-> "none"]
ShellFresh == shIn = <<>> /\ shOut = NoShellCall

\* no managed command has been built on either side
NoCommand == [built |-> FALSE, state |-> "unknown", args |-> <<>>, argv |-> <<>>,
              res |-> "none"]
WrapFresh == managed = [local |-> NoCommand, remote |-> NoCommand]

\* CalculateRequiredSpace has not been called on its own
EstimateFresh == estimate = [called |-> FALSE, total |-> 0, required |-> 0]

\* no step has used the remote staging directory
NotStaged == [probe |-> <<>>, populate |-> <<>>,
              created |-> <<>>, uploaded |-> <<>>, read |-> <<>>, removed |-> <<>>,
              cleaned |-> FALSE]
StageFresh == stagingDir = <<"/">> /\ staged = NotStaged

LaterFresh == DiscFresh /\ ShellFresh /\ WrapFresh /\ EstimateFresh /\ StageFresh

ExtFresh == DetFresh /\ SessFresh /\ MainFresh /\ LaterFresh

DefaultConfig == [interactive |-> FALSE, dryRun |-> FALSE, force |-> FALSE,
                  noCleanup |-> FALSE, tempDirGiven |-> FALSE]

TrustInit ==
    /\ khExists \in BOOLEAN
    /\ khLines \in SeqsUpTo(Records, MaxInitLines)
    /\ ~khExists => khLines = <<>>
    /\ initLines = khLines
    /\ cb = NoCallback
    /\ lastOp = NoOp
    /\ acceptLog = <<>>
    /\ MigFresh(DefaultConfig)
    /\ ExtFresh

TrustNext ==
    \/ \E strict \in BOOLEAN, accept \in BOOLEAN, createOk \in BOOLEAN, loadOk \in BOOLEAN :
          GetCallback(strict, accept, createOk, loadOk)
    \/ \E h \in Hosts, k \in Keys, addOk \in BOOLEAN : AcceptNewCallback(h, k, addOk)
    \/ \E h \in Hosts, k \in Keys : KnownHostsCallback(h, k)
    \/ \E createOk \in BOOLEAN : CallCreateKnownHostsFile(createOk)

SpecTrust == TrustInit /\ [][TrustNext]_vars

(***************************************************************************)
(* Part II.  MigrationOrchestrator                                         *)
(***************************************************************************)
PhaseOrder == <<"Init", "Discover", "Select", "ValidateSpace", "Export", "Transfer",
                "Import", "Cleanup">>
PhaseIndex(ph) == CHOOSE i \in 1..Len(PhaseOrder) : PhaseOrder[i] = ph

\* the phase Migrate is in at each position
PhaseOf(p) ==
    CASE p \in {"start", "ssh"} -> "Init"
      [] p = "discover" -> "Discover"
      [] p = "select" -> "Select"
      [] p = "space" -> "ValidateSpace"
      [] p \in {"export_mkdir", "export"} -> "Export"
      [] p \in {"transfer_mkdir", "transfer"} -> "Transfer"
      [] p = "import" -> "Import"
      [] p \in {"cleanup_local", "cleanup_remote"} -> "Cleanup"
      [] OTHER -> "none"

Started(ph) == IF \E i \in 1..Len(phaseLog) : phaseLog[i] = ph
               THEN phaseLog ELSE Append(phaseLog, ph)

Bump(op, v) == [calls EXCEPT ![op][v] = @ + 1]

\* exec.CommandContext(ctx, ...): a local docker command fails once ctx is
\* cancelled (it is killed, or not started).
LocalCommandOk(ok) == ok /\ ~cancelled

\* Mutant: the deferred sshClient.Close() is not run.
ExitToWithoutClose(d, open) == IF d THEN "cleanup_local" ELSE "done"

\* A return statement of Migrate: the deferred calls run in LIFO order, the
\* cleanup closure (if registered) before sshClient.Close (if registered).
ExitTo(d, open) == IF d THEN "cleanup_local" ELSE IF open THEN "close" ELSE "done"

Return(err, d) ==
    /\ ret' = err
    /\ primary' = IF err = "ok" THEN "none" ELSE PhaseOf(pc)
    /\ pc' = ExitTo(d, sshOpen)

CountCancelled(ok) ==
    afterCancel' = IF ok /\ cancelled /\ cancelPhase \in {"Export", "Transfer", "Import"}
                   THEN afterCancel + 1 ELSE afterCancel

\* Mutant: the dry-run flag is ignored.
DryRunIgnored(dryRun) == FALSE

\* migrator.go:278: dry-run returns nil before the export.
DryRunReturns(dryRun) == dryRun

\* Mutant: a transfer error is logged and Migrate goes on.
TransferGateOpen(ok) == TRUE

\* migrator.go:313-315 and 370-372: Migrate goes on after a transfer step
\* only if it returned no error.
TransferGate(ok) == ok

\* Mutant: a cleanup failure becomes Migrate's result.
ResultCleanupWins(r, ok) == IF ok THEN r ELSE "cleanup"

\* migrator.go:299-307: the deferred closure logs the cleanup errors; Migrate
\* has an unnamed result, which the closure cannot change.
ResultAfterCleanup(r, ok) == r

\* Mutant: a populate failure is logged and nil is returned.
ImportVolumeErrorSwallowed(valid, createOk, populateOk, rmOk) ==
    IF ~valid THEN "invalid"
    ELSE IF ~createOk THEN "create"
    ELSE "ok"

\* Mutant: a failed removal replaces the populate error.
ImportVolumeErrorMasked(valid, createOk, populateOk, rmOk) ==
    IF ~valid THEN "invalid"
    ELSE IF ~createOk THEN "create"
    ELSE IF ~populateOk THEN (IF rmOk THEN "populate" ELSE "remove")
    ELSE "ok"

\* ImportVolume's returned error (import.go:15-51).
ImportVolumeError(valid, createOk, populateOk, rmOk) ==
    IF ~valid THEN "invalid"
    ELSE IF ~createOk THEN "create"
    ELSE IF ~populateOk THEN "populate"
    ELSE "ok"

\* SudoDetector.Detect run by a single caller on a fresh detector: the state
\* it leaves, "unknown" when it returns ErrDockerNotAccessible.
DetectOutcome(p1, p2) ==
    IF p1 THEN "notrequired"
    ELSE IF p2 THEN "required"
    ELSE "unknown"

\* Mutant: the detection error is dropped and Migrate goes on.
DockerClientErrorIgnored(state) == FALSE

\* docker.NewClient returns Detect's error, and Migrate returns it
\* (migrator.go:168-171).
DockerClientError(state) == state = "unknown"

\* Phase 1, first half: docker.NewClient, which runs Detect on a new
\* SudoDetector; p1, p2: outcome of "docker ps" and of "sudo -n docker ps".
InitDocker(p1, p2) ==
    /\ pc = "start"
    /\ p1 => p2                             \* the second probe runs only if the first failed
    /\ phaseLog' = Started("Init")
    /\ dockerSudo' = DetectOutcome(LocalCommandOk(p1), LocalCommandOk(p2))
    /\ IF DockerClientError(dockerSudo')
       THEN Return("docker", FALSE)
       ELSE /\ pc' = "ssh"
            /\ UNCHANGED <<ret, primary>>
    /\ UNCHANGED <<cfg, phaseOk, volumes, badNames, archivePaths, transferred, imported, remoteVols,
                   calls, importErr, fs, deferred, cleanupRes, sshOpen, cancelled,
                   cancelPhase, afterCancel, trustVars, ext, clobbered, sshAttempted, space>>

\* Phase 1, second half: ssh.NewClient, then defer sshClient.Close().
InitSSH(ok) ==
    /\ pc = "ssh"
    /\ sshAttempted' = TRUE
    /\ IF ok
       THEN /\ pc' = "discover"
            /\ sshOpen' = TRUE
            /\ phaseOk' = phaseOk \cup {"Init"}
            /\ UNCHANGED <<ret, primary>>
       ELSE /\ Return("ssh", FALSE)
            /\ UNCHANGED <<sshOpen, phaseOk>>
    /\ UNCHANGED <<cfg, phaseLog, volumes, badNames, archivePaths, transferred, imported, remoteVols,
                   calls, importErr, fs, deferred, cleanupRes, cancelled, cancelPhase,
                   afterCancel, trustVars, ext, clobbered, dockerSudo, space>>

\* Phase 2: discoverVolumes; an empty result ends the run with nil.
Discover(ok, vs, bad) ==
    /\ pc = "discover"
    /\ phaseLog' = Started("Discover")
    /\ IF ~LocalCommandOk(ok)
       THEN /\ Return("discover", FALSE)
            /\ UNCHANGED <<phaseOk, volumes, badNames>>
       ELSE /\ phaseOk' = phaseOk \cup {"Discover"}
            /\ volumes' = vs
            /\ badNames' = bad
            /\ IF vs = {}
               THEN Return("ok", FALSE)
               ELSE /\ pc' = "select"
                    /\ UNCHANGED <<ret, primary>>
    /\ UNCHANGED <<cfg, archivePaths, transferred, imported, remoteVols, calls, importErr, fs,
                   deferred, cleanupRes, sshOpen, cancelled, cancelPhase, afterCancel,
                   trustVars, ext, clobbered, dockerSudo, sshAttempted, space>>

\* Phase 2.5: ui.SelectVolumes when interactive (a non-empty subset, or an
\* error), otherwise the discovered set is used.
Select(ok, sel) ==
    /\ pc = "select"
    /\ IF cfg.interactive
       THEN /\ phaseLog' = Started("Select")
            /\ IF ok
               THEN /\ volumes' = sel
                    /\ badNames' = badNames \cap sel
                    /\ phaseOk' = phaseOk \cup {"Select"}
                    /\ pc' = "space"
                    /\ UNCHANGED <<ret, primary>>
               ELSE /\ Return("select", FALSE)
                    /\ UNCHANGED <<volumes, badNames, phaseOk>>
       ELSE /\ ok /\ sel = volumes
            /\ pc' = "space"
            /\ UNCHANGED <<phaseLog, volumes, badNames, phaseOk, ret, primary>>
    /\ UNCHANGED <<cfg, archivePaths, transferred, imported, remoteVols, calls, importErr, fs,
                   deferred, cleanupRes, sshOpen, cancelled, cancelPhase, afterCancel,
                   trustVars, ext, clobbered, dockerSudo, sshAttempted, space>>

\* The float64 nearest to 1.10 is 0x1.199999999999Ap0: a significand of 53
\* bits, 52 of them after the binary point. Its hexadecimal digits, least
\* significant first.
FractionBits == 52
Significand110 == <<10, 9, 9, 9, 9, 9, 9, 9, 9, 9, 9, 9, 1, 1>>

\* the hexadecimal digits (least significant first) of n * m + carry
RECURSIVE MulDigits(_, _, _)
MulDigits(n, m, carry) ==
    IF m = <<>>
    THEN IF carry = 0 THEN <<>> ELSE <<carry % 16>> \o MulDigits(n, m, carry \div 16)
    ELSE <<(n * Head(m) + carry) % 16>>
         \o MulDigits(n, Tail(m), (n * Head(m) + carry) \div 16)

RECURSIVE DigitsValue(_)
DigitsValue(ds) == IF ds = <<>> THEN 0 ELSE Head(ds) + 16 * DigitsValue(Tail(ds))

RECURSIVE BitLen(_)
BitLen(n) == IF n = 0 THEN 0 ELSE 1 + BitLen(n \div 2)

\* bit i (from 0) of a number given by its hexadecimal digits
BitOf(ds, i) ==
    IF (i \div 4) + 1 > Len(ds) THEN 0
    ELSE (ds[(i \div 4) + 1] \div (CASE i % 4 = 0 -> 1 [] i % 4 = 1 -> 2
                                      [] i % 4 = 2 -> 4 [] OTHER -> 8)) % 2

\* int64(float64(n) * 1.10) for 0 <= n < 2^27: float64(n) is exact; the exact
\* product n * 0x1199999999999A / 2^52 is rounded to 53 significant bits
\* (to nearest, ties to even), which drops dropped = BitLen(whole) - 1 of
\* its fraction bits; the conversion to int64 truncates. The rounding
\* reaches the integer part only when it rounds up and every fraction bit it
\* keeps is 1.
Float64Times110Truncated(n) ==
    LET q == MulDigits(n, Significand110, 0)
        whole == IF Len(q) <= FractionBits \div 4 THEN 0
                 ELSE DigitsValue(SubSeq(q, (FractionBits \div 4) + 1, Len(q)))
        dropped == BitLen(whole) - 1
        roundsUp == /\ dropped >= 1
                    /\ BitOf(q, dropped - 1) = 1
                    /\ \/ BitOf(q, dropped) = 1
                       \/ \E i \in 0..(dropped - 2) : BitOf(q, i) = 1
        carries == roundsUp /\ \A i \in dropped..(FractionBits - 1) : BitOf(q, i) = 1
    IN  IF carries THEN whole + 1 ELSE whole

\* Mutant: no buffer is added.
CalculateRequiredSpaceNoBuffer(n) == n

\* utils.CalculateRequiredSpace: int64(float64(n) * 1.10)
CalculateRequiredSpace(n) == Float64Times110Truncated(n)

\* Mutant: available space equal to the required space is rejected.
ValidateDiskSpaceStrict(required, available) == available <= required

\* utils.ValidateDiskSpace returns an error (TRUE) iff available < required.
ValidateDiskSpace(required, available) == available < required

\* Mutant: a side that cannot be measured fails the run.
MeasureErrorIsFatal(m) == ~m.ok

\* migrator.go:241-244 and 258-261: an error of GetLocalDiskSpace or
\* GetRemoteDiskSpace is logged (when verbose) and is not returned.
MeasureErrorFatal(m) == FALSE

\* how a measured available space compares with the required space
SpaceClass(required, available) ==
    IF available < required THEN "short"
    ELSE IF available = required THEN "equal"
    ELSE "more"

\* the result of GetLocalDiskSpace / GetRemoteDiskSpace: an error, or the
\* available space
Unmeasurable == [ok |-> FALSE, avail |-> 0]

\* syscall.Statfs(m.config.TempDir) in GetLocalDiskSpace fails on a path that
\* does not exist. A TempDir given on the command line may exist; the
\* default NewMigrator generates (migrator.go:146-148, a new name under
\* os.TempDir() with the time in it) exists only once exportVolumes has
\* created it.
LocalDirCanExist == cfg.tempDirGiven \/ fs.localDir

\* Phase 4.5 and the dry-run test. total: the sum of the volumes' SizeBytes;
\* l, r: what GetLocalDiskSpace / GetRemoteDiskSpace returns; an error is
\* logged as a warning only. The remote side is
\* looked at only if the local side did not fail; nothing is looked at
\* when Force is set.
ValidateSpace(total, l, r) ==
    /\ pc = "space"
    /\ ~LocalDirCanExist => l = Unmeasurable
    /\ LET required == CalculateRequiredSpace(total)
           localErr == \/ MeasureErrorFatal(l)
                       \/ l.ok /\ ValidateDiskSpace(required, l.avail)
           remoteErr == \/ MeasureErrorFatal(r)
                        \/ r.ok /\ ValidateDiskSpace(required, r.avail)
           fails == ~cfg.force /\ (localErr \/ remoteErr)
           class(a) == IF a.ok THEN SpaceClass(required, a.avail) ELSE "unmeasurable"
       IN  /\ phaseLog' = IF cfg.force THEN phaseLog ELSE Started("ValidateSpace")
           \* inputs that are not read have one value
           /\ cfg.force => (total = 0 /\ l = Unmeasurable /\ r = Unmeasurable)
           /\ (~cfg.force /\ localErr) => r = Unmeasurable
           /\ space' = IF cfg.force THEN space
                        ELSE [local |-> class(l),
                              remote |-> IF localErr THEN "none" ELSE class(r)]
           /\ IF fails
              THEN /\ Return("space", FALSE)
                   /\ UNCHANGED phaseOk
              ELSE /\ phaseOk' = IF cfg.force THEN phaseOk
                                 ELSE phaseOk \cup {"ValidateSpace"}
                   /\ IF DryRunReturns(cfg.dryRun)
                      THEN Return("ok", FALSE)
                      ELSE /\ pc' = "export_mkdir"
                           /\ UNCHANGED <<ret, primary>>
    /\ UNCHANGED <<cfg, volumes, badNames, archivePaths, transferred, imported, remoteVols, calls,
                   importErr, fs, deferred, cleanupRes, sshOpen, cancelled, cancelPhase,
                   afterCancel, trustVars, ext, clobbered, dockerSudo, sshAttempted>>

\* Migrator.exportVolumes: os.MkdirAll(TempDir).
ExportMkdir(ok) ==
    /\ pc = "export_mkdir"
    /\ phaseLog' = Started("Export")
    /\ fs' = [fs EXCEPT !.mkdirLocal = @ + 1, !.localDir = @ \/ ok,
                          !.madeLocal = @ \/ ok]
    /\ IF ok
       THEN /\ pc' = "export"
            /\ UNCHANGED <<ret, primary>>
       ELSE Return("export", FALSE)
    /\ UNCHANGED <<cfg, phaseOk, volumes, badNames, archivePaths, transferred, imported, remoteVols,
                   calls, importErr, deferred, cleanupRes, sshOpen, cancelled,
                   cancelPhase, afterCancel, trustVars, ext, clobbered, dockerSudo, sshAttempted, space>>

\* One iteration of ExportVolumes: ExportVolume(v). After the last one Migrate
\* registers the cleanup closure unless NoCleanup (migrator.go:298-308).
ExportVolume(v, cmdOk) ==
    /\ pc = "export"
    /\ v \in volumes \ archivePaths
    /\ LET valid == v \notin badNames
           ok == valid /\ LocalCommandOk(cmdOk)
           last == archivePaths \cup {v} = volumes
       IN  /\ calls' = IF valid THEN Bump("export", v) ELSE calls
           /\ CountCancelled(ok)
           /\ IF ok
              THEN /\ archivePaths' = archivePaths \cup {v}
                   /\ IF last
                      THEN /\ phaseOk' = phaseOk \cup {"Export"}
                           /\ deferred' = ~cfg.noCleanup
                           /\ pc' = "transfer_mkdir"
                      ELSE UNCHANGED <<phaseOk, deferred, pc>>
                   /\ UNCHANGED <<ret, primary>>
              ELSE /\ Return("export", deferred)
                   /\ UNCHANGED <<archivePaths, phaseOk, deferred>>
    /\ UNCHANGED <<cfg, phaseLog, volumes, badNames, transferred, imported, remoteVols, importErr,
                   fs, cleanupRes, sshOpen, cancelled, cancelPhase, trustVars, ext, clobbered, dockerSudo, sshAttempted, space>>

\* Migrator.transferVolumes: sshClient.CreateDirectory(RemoteTempDir).
TransferMkdir(ok) ==
    /\ pc = "transfer_mkdir"
    /\ phaseLog' = Started("Transfer")
    /\ fs' = [fs EXCEPT !.mkdirRemote = @ + 1, !.remoteDir = @ \/ ok,
                          !.madeRemote = @ \/ ok]
    /\ IF ok
       THEN /\ pc' = "transfer"
            /\ UNCHANGED <<ret, primary>>
       ELSE Return("transfer", deferred)
    /\ UNCHANGED <<cfg, phaseOk, volumes, badNames, archivePaths, transferred, imported, remoteVols,
                   calls, importErr, deferred, cleanupRes, sshOpen, cancelled,
                   cancelPhase, afterCancel, trustVars, ext, clobbered, dockerSudo, sshAttempted, space>>

\* One iteration of transferVolumes over the archivePaths map (any order):
\* sshClient.TransferFile, which does not look at the context.
TransferFile(v, ok) ==
    /\ pc = "transfer"
    /\ v \in archivePaths /\ calls["transfer"][v] = 0
    /\ calls' = Bump("transfer", v)
    /\ transferred' = IF ok THEN transferred \cup {v} ELSE transferred
    /\ CountCancelled(ok)
    /\ IF TransferGate(ok)
       THEN /\ IF \A w \in archivePaths : calls'["transfer"][w] > 0
               THEN /\ pc' = "import"
                    /\ phaseOk' = IF transferred' = archivePaths
                                  THEN phaseOk \cup {"Transfer"} ELSE phaseOk
               ELSE UNCHANGED <<pc, phaseOk>>
            /\ UNCHANGED <<ret, primary>>
       ELSE /\ Return("transfer", deferred)
            /\ UNCHANGED phaseOk
    /\ UNCHANGED <<cfg, phaseLog, volumes, badNames, archivePaths, imported, remoteVols, importErr,
                   fs, deferred, cleanupRes, sshOpen, cancelled, cancelPhase, trustVars, ext, clobbered, dockerSudo, sshAttempted, space>>

\* import.go:22-23, 43: "docker volume create <name>" is run whether or not
\* the remote host already has a volume of that name (docker reuses an
\* existing volume and reports success), and "docker volume rm <name>"
\* removes the volume of that name. existed: the remote host had a volume of
\* this name before the job; removed: the compensating removal ran and
\* succeeded.
RemovesExisting(existed, removed) == existed /\ removed

\* Mutant: ImportVolume does not look at the result of the validation.
ImportVolumeCommandsUnvalidated(valid, createOk, populateOk) ==
    IF ~createOk THEN <<"create">>
    ELSE IF ~populateOk THEN <<"create", "populate", "remove">>
    ELSE <<"create", "populate">>

\* The docker commands ImportVolume runs, in order (import.go:15-47): none
\* for a name ValidateVolumeName rejects; volume create; the populating run
\* if the volume was created; volume rm if populating failed.
ImportVolumeCommands(valid, createOk, populateOk) ==
    IF ~valid THEN <<>>
    ELSE IF ~createOk THEN <<"create">>
    ELSE IF ~populateOk THEN <<"create", "populate", "remove">>
    ELSE <<"create", "populate">>

Ran(cmds, c) == \E i \in 1..Len(cmds) : cmds[i] = c

\* Mutant: ImportVolumes goes on with the next volume after an error.
ImportGateOpen(err) == TRUE

\* import.go:60-62: ImportVolumes goes on to the next volume only if
\* ImportVolume returned no error.
ImportGate(err) == err = "ok"

\* One iteration of ImportVolumes over the archivePaths map (any order):
\* ImportVolume validates the name, creates the volume, populates it and, if
\* that fails, removes the volume again.
ImportVolume(v, createOk, populateOk, rmOk) ==
    /\ pc = "import"
    /\ v \in archivePaths /\ importErr[v] = "none"
    /\ LET valid == v \notin badNames
           err == ImportVolumeError(valid, createOk, populateOk, rmOk)
           cmds == ImportVolumeCommands(valid, createOk, populateOk)
           created == Ran(cmds, "create")
           populate == Ran(cmds, "populate")
           remove == Ran(cmds, "remove")
       IN  /\ calls' = [calls EXCEPT
                          !["create"][v] = @ + (IF created THEN 1 ELSE 0),
                          !["populate"][v] = @ + (IF populate THEN 1 ELSE 0),
                          !["remove"][v] = @ + (IF remove THEN 1 ELSE 0)]
           /\ importErr' = [importErr EXCEPT ![v] = err]
           /\ imported' = IF err = "ok" THEN imported \cup {v} ELSE imported
           /\ remoteVols' = IF valid /\ createOk /\ (populateOk \/ ~rmOk)
                            THEN remoteVols \cup {v} ELSE remoteVols
           /\ \E existed \in BOOLEAN :
                 /\ ~(remove /\ rmOk) => ~existed      \* it matters only to a removal
                 /\ clobbered' = IF RemovesExisting(existed, remove /\ rmOk)
                                 THEN clobbered \cup {v} ELSE clobbered
           /\ CountCancelled(err = "ok")
           /\ phaseLog' = Started("Import")
           /\ IF ImportGate(err)
              THEN IF \A w \in archivePaths : importErr'[w] # "none"
                   THEN /\ phaseOk' = phaseOk \cup {"Import"}
                        /\ Return("ok", deferred)
                   ELSE UNCHANGED <<phaseOk, pc, ret, primary>>
              ELSE /\ Return("import", deferred)
                   /\ UNCHANGED phaseOk
    /\ UNCHANGED <<cfg, volumes, badNames, archivePaths, transferred, fs, deferred,
                   cleanupRes, sshOpen, cancelled, cancelPhase, trustVars, ext, dockerSudo,
                   sshAttempted, space>>

\* Deferred closure, first half: CleanupLocal(TempDir) = os.RemoveAll.
CleanupLocal(ok) ==
    /\ pc = "cleanup_local"
    /\ phaseLog' = Started("Cleanup")
    /\ fs' = [fs EXCEPT !.rmLocal = @ + 1, !.localDir = @ /\ ~ok]
    /\ cleanupRes' = [cleanupRes EXCEPT !.local = IF ok THEN "ok" ELSE "fail"]
    /\ ret' = ResultAfterCleanup(ret, ok)
    /\ pc' = "cleanup_remote"
    /\ UNCHANGED <<cfg, primary, phaseOk, volumes, badNames, archivePaths, transferred,
                   imported, remoteVols, calls, importErr, deferred, sshOpen, cancelled, cancelPhase,
                   afterCancel, trustVars, ext, clobbered, dockerSudo, sshAttempted, space>>

\* Deferred closure, second half: CleanupRemote = sshClient.RemoveDirectory.
CleanupRemote(ok) ==
    /\ pc = "cleanup_remote"
    /\ fs' = [fs EXCEPT !.rmRemote = @ + 1, !.remoteDir = @ /\ ~ok]
    /\ cleanupRes' = [cleanupRes EXCEPT !.remote = IF ok THEN "ok" ELSE "fail"]
    /\ ret' = ResultAfterCleanup(ret, ok)
    /\ pc' = ExitTo(FALSE, sshOpen)
    /\ UNCHANGED <<cfg, primary, phaseLog, phaseOk, volumes, badNames, archivePaths,
                   transferred, imported, remoteVols, remoteVols, calls, importErr, deferred, sshOpen, cancelled,
                   cancelPhase, afterCancel, trustVars, ext, clobbered, dockerSudo, sshAttempted, space>>

\* Deferred sshClient.Close(), then Migrate has returned.
Close ==
    /\ pc = "close"
    /\ sshOpen' = FALSE
    /\ pc' = "done"
    /\ UNCHANGED <<cfg, ret, primary, phaseLog, phaseOk, volumes, badNames, archivePaths,
                   transferred, imported, remoteVols, remoteVols, calls, importErr, fs, deferred, cleanupRes,
                   cancelled, cancelPhase, afterCancel, trustVars, ext, clobbered, dockerSudo, sshAttempted, space>>

\* runMigration's signal goroutine: on SIGINT / SIGTERM it cancels the context.
Cancel ==
    /\ ~cancelled /\ pc # "done"
    /\ cancelled' = TRUE
    /\ cancelPhase' = PhaseOf(pc)
    /\ UNCHANGED <<cfg, pc, ret, primary, phaseLog, phaseOk, volumes, badNames,
                   archivePaths, transferred, imported, remoteVols, calls, importErr, fs, deferred,
                   cleanupRes, sshOpen, afterCancel, trustVars, ext, clobbered, dockerSudo, sshAttempted, space>>

SpaceOutcomes == {Unmeasurable} \cup [ok : {TRUE}, avail : 0..MaxSpace]

MigInit ==
    /\ khExists = FALSE /\ khLines = <<>> /\ initLines = <<>>
    /\ cb = NoCallback /\ lastOp = NoOp /\ acceptLog = <<>>
    /\ \E c \in [interactive : BOOLEAN, dryRun : BOOLEAN, force : BOOLEAN,
                 noCleanup : BOOLEAN, tempDirGiven : BOOLEAN] :
          \* whether TempDir exists is looked at by the space check only:
          \* the generated default is taken with the other flags at their
          \* defaults, with and without DryRun
          /\ c.tempDirGiven \/ (~c.interactive /\ ~c.force /\ ~c.noCleanup)
          /\ MigFresh(c)
    /\ ExtFresh

MigNext ==
    \/ \E p1 \in BOOLEAN, p2 \in BOOLEAN : InitDocker(p1, p2)
    \/ \E ok \in BOOLEAN : InitSSH(ok)
    \* the volumes are interchangeable: n discovered volumes are named 1..n
    \/ \E ok \in BOOLEAN, n \in 0..NumVolumes :
          \E bad \in SUBSET (1..n) : Discover(ok, 1..n, bad)
    \/ \E ok \in BOOLEAN, sel \in (SUBSET volumes) \ {{}} : Select(ok, sel)
    \/ \E total \in 0..MaxSpace, l \in SpaceOutcomes, r \in SpaceOutcomes :
          ValidateSpace(total, l, r)
    \/ \E ok \in BOOLEAN : ExportMkdir(ok)
    \/ \E v \in Vols, ok \in BOOLEAN : ExportVolume(v, ok)
    \/ \E ok \in BOOLEAN : TransferMkdir(ok)
    \/ \E v \in Vols, ok \in BOOLEAN : TransferFile(v, ok)
    \/ \E v \in Vols, c \in BOOLEAN, p \in BOOLEAN, r \in BOOLEAN : ImportVolume(v, c, p, r)
    \/ \E ok \in BOOLEAN : CleanupLocal(ok)
    \/ \E ok \in BOOLEAN : CleanupRemote(ok)
    \/ Close
    \/ Cancel

SpecMigrate == MigInit /\ [][MigNext]_vars

(***************************************************************************)
(* Part III.  SudoDetector                                                 *)
(***************************************************************************)
notDet == <<trustVars, mig, sessVars, mainVars, later>>

\* Mutant: Lock does not wait for the holder.
MutexIgnored(mu) == TRUE

\* sd.mu.Lock() returns only when no goroutine holds the mutex.
MutexFree(mu) == mu = 0

\* Mutant: the cached result is not looked at.
AlreadyCheckedIgnored(checked) == FALSE

\* volume.go:181: if sd.checked { return nil }
AlreadyChecked(checked) == checked

\* the deferred sd.mu.Unlock() and the return of Detect with result r
DetectReturn(c, r) ==
    /\ sdMu' = 0
    /\ sdPc' = [sdPc EXCEPT ![c] = "idle"]
    /\ sdRet' = [sdRet EXCEPT ![c] = r]
    /\ sdReturns' = sdReturns + 1

\* sd.required / sd.checked assignments of a successful probe
Resolve(required) ==
    /\ sdRequired' = required
    /\ sdChecked' = TRUE
    /\ sdFirst' = IF sdFirst = "none"
                  THEN (IF required THEN "required" ELSE "notrequired") ELSE sdFirst

\* A goroutine calls Detect: it blocks in sd.mu.Lock().
DetectCall(c) ==
    /\ sdPc[c] = "idle" /\ sdCallNo[c] < MaxCalls
    /\ sdPc' = [sdPc EXCEPT ![c] = "lock"]
    /\ sdCallNo' = [sdCallNo EXCEPT ![c] = @ + 1]
    /\ sdConc' = [sdConc EXCEPT ![c] = (sdReturns = 0)]
    /\ sdRan' = [sdRan EXCEPT ![c] = 0]
    /\ sdRet' = [sdRet EXCEPT ![c] = "none"]
    /\ sdSawChecked' = [sdSawChecked EXCEPT ![c] = FALSE]
    /\ UNCHANGED <<sdRequired, sdChecked, sdMu, sdReturns, sdFirst, sdRead, notDet>>

\* Lock is acquired and sd.checked is tested (volume.go:178-183).
DetectEnter(c) ==
    /\ sdPc[c] = "lock" /\ MutexFree(sdMu)
    /\ sdSawChecked' = [sdSawChecked EXCEPT ![c] = sdChecked]
    /\ IF AlreadyChecked(sdChecked)
       THEN DetectReturn(c, "nil")
       ELSE /\ sdMu' = c
            /\ sdPc' = [sdPc EXCEPT ![c] = "probe1"]
            /\ UNCHANGED <<sdRet, sdReturns>>
    /\ UNCHANGED <<sdRequired, sdChecked, sdCallNo, sdConc, sdRan, sdFirst, sdRead, notDet>>

\* "docker ps" without sudo (volume.go:186-195).
ProbeUnprivileged(c, ok) ==
    /\ sdPc[c] = "probe1"
    /\ sdRan' = [sdRan EXCEPT ![c] = @ + 1]
    /\ IF ok
       THEN /\ Resolve(FALSE)
            /\ DetectReturn(c, "nil")
       ELSE /\ sdPc' = [sdPc EXCEPT ![c] = "probe2"]
            /\ UNCHANGED <<sdRequired, sdChecked, sdFirst, sdMu, sdRet, sdReturns>>
    /\ UNCHANGED <<sdCallNo, sdConc, sdSawChecked, sdRead, notDet>>

\* "sudo -n docker ps" (volume.go:198-208).
ProbeElevated(c, ok) ==
    /\ sdPc[c] = "probe2"
    /\ sdRan' = [sdRan EXCEPT ![c] = @ + 1]
    /\ IF ok
       THEN /\ Resolve(TRUE)
            /\ DetectReturn(c, "nil")
       ELSE /\ DetectReturn(c, "err")
            /\ UNCHANGED <<sdRequired, sdChecked, sdFirst>>
    /\ UNCHANGED <<sdCallNo, sdConc, sdSawChecked, sdRead, notDet>>

\* IsRequired: sd.required read under the mutex (volume.go:212-216).
IsRequired(c) ==
    /\ sdPc[c] = "idle" /\ MutexFree(sdMu)
    /\ sdRead' = [sdRead EXCEPT ![c] = [done |-> TRUE, val |-> sdRequired,
                                        resolved |-> sdChecked]]
    /\ UNCHANGED <<sdRequired, sdChecked, sdMu, sdPc, sdCallNo, sdConc, sdSawChecked,
                   sdRan, sdRet, sdReturns, sdFirst, notDet>>

\* the parts before Part III before any of their operations
CoreFresh ==
    /\ khExists = FALSE /\ khLines = <<>> /\ initLines = <<>>
    /\ cb = NoCallback /\ lastOp = NoOp /\ acceptLog = <<>>
    /\ MigFresh(DefaultConfig)

DetInit == CoreFresh /\ ExtFresh

DetNext ==
    \/ \E c \in Callers : DetectCall(c)
    \/ \E c \in Callers : DetectEnter(c)
    \/ \E c \in Callers, ok \in BOOLEAN : ProbeUnprivileged(c, ok)
    \/ \E c \in Callers, ok \in BOOLEAN : ProbeElevated(c, ok)
    \/ \E c \in Callers : IsRequired(c)

SpecDetect == DetInit /\ [][DetNext]_vars

(***************************************************************************)
(* Part IV.  ssh.Client                                                    *)
(***************************************************************************)
notSess == <<trustVars, mig, detVars, mainVars, later>>

\* A path is a sequence of symbols: the characters "/", "." and "'", and
\* directory names, each standing for its run of letters.
DirNames == {"bin", "etc", "usr", "var", "home", "tmp"}
Symbols == {"/", ".", "'"} \cup DirNames
Paths == SeqsUpTo(Symbols, MaxPathLen)

\* strings.ReplaceAll(path, "..", "")
RECURSIVE RemoveDotDot(_)
RemoveDotDot(p) ==
    IF Len(p) < 2 THEN p
    ELSE IF p[1] = "." /\ p[2] = "." THEN RemoveDotDot(SubSeq(p, 3, Len(p)))
    ELSE <<p[1]>> \o RemoveDotDot(Tail(p))

\* strings.Contains(path, a + b) for two symbols a, b
ContainsPair(p, a, b) == \E i \in 1..(Len(p) - 1) : p[i] = a /\ p[i + 1] = b

\* strings.ReplaceAll(path, "//", "/")
RECURSIVE ReplaceSlashPairs(_)
ReplaceSlashPairs(p) ==
    IF Len(p) < 2 THEN p
    ELSE IF p[1] = "/" /\ p[2] = "/"
         THEN <<"/">> \o ReplaceSlashPairs(SubSeq(p, 3, Len(p)))
    ELSE <<p[1]>> \o ReplaceSlashPairs(Tail(p))

\* Mutant: the replacement is applied once, not until no "//" is left.
CollapseSlashesOnce(p) == ReplaceSlashPairs(p)

\* for strings.Contains(path, "//") { path = strings.ReplaceAll(...) }
RECURSIVE CollapseSlashes(_)
CollapseSlashes(p) ==
    IF ContainsPair(p, "/", "/") THEN CollapseSlashes(ReplaceSlashPairs(p)) ELSE p

\* shell.SanitizePathForRemote
SanitizePathForRemote(path) ==
    LET p1 == RemoveDotDot(path)
        p2 == IF Len(p1) > 0 /\ p1[1] = "/" THEN p1 ELSE <<"/">> \o p1
    IN  CollapseSlashes(p2)

\* the symbols isSafeString lets through: a letter or digit ("a", or a
\* directory name standing for its letters), dash, underscore, dot, slash
SafeSymbols == DirNames \cup {"a", "a..a", "-", "_", ".", "/"}

\* Mutant: the dot is not among the safe characters.
isSafeStringWithoutDot(p) ==
    /\ p # <<>>
    /\ \A i \in 1..Len(p) : p[i] \in SafeSymbols \ {"."}

\* shell.isSafeString
isSafeString(p) ==
    /\ p # <<>>
    /\ ~ContainsPair(p, ".", ".")
    /\ \A i \in 1..Len(p) : p[i] \in SafeSymbols

\* Mutant: single quotes inside the string are left as they are.
EscapeQuotesNone(p) == p

\* strings.ReplaceAll(s, "'", "'\\''")
RECURSIVE EscapeQuotes(_)
EscapeQuotes(p) ==
    IF p = <<>> THEN <<>>
    ELSE (IF p[1] = "'" THEN <<"'", "\\", "'", "'">> ELSE <<p[1]>>)
         \o EscapeQuotes(Tail(p))

\* shell.ShellEscape
ShellEscape(p) ==
    IF isSafeString(p) THEN p ELSE <<"'">> \o EscapeQuotes(p) \o <<"'">>

\* Mutant: the root directory is missing from the deny-list.
IsSystemDirectoryNoRoot(p) ==
    p \in {<<"/", "bin">>, <<"/", "etc">>, <<"/", "usr">>, <<"/", "var">>,
           <<"/", "home">>}

\* client.go:184-185: the paths RemoveDirectory refuses.
IsSystemDirectory(p) ==
    p \in {<<"/">>, <<"/", "bin">>, <<"/", "etc">>, <<"/", "usr">>, <<"/", "var">>,
           <<"/", "home">>}

\* The deny-list test each operation applies to the sanitized path:
\* RemoveDirectory has one (client.go:184), CreateDirectory and RemoveFile
\* have none.
Refuses(op, safePath) ==
    CASE op = "removeDir" -> IsSystemDirectory(safePath)
      [] OTHER -> FALSE

RemoteVerb(op) ==
    CASE op = "createDir" -> "mkdir -p"
      [] op = "removeFile" -> "rm -f"
      [] OTHER -> "rm -rf"

\* Client.RunCommand on the Client's transport: a nil c.client panics in
\* NewSession, a closed one makes NewSession fail.
RunCommandResult(transport, runOk) ==
    CASE transport = "none" -> "panic"
      [] transport = "closed" -> "failed"
      [] OTHER -> IF runOk THEN "ok" ELSE "failed"

\* return nil, fmt.Errorf(...) of NewClient at the given step
NewClientFail(step) ==
    /\ snPc' = "returned" /\ snReturn' = "error" /\ snFailedAt' = step

\* One step of NewClient that can only fail or go on: parseHostPort,
\* getAuthMethods, NewHostKeyVerifier, verifier.GetCallback.
NewClientStep(from, to, ok) ==
    /\ snPc = from
    /\ IF ok
       THEN snPc' = to /\ UNCHANGED <<snReturn, snFailedAt>>
       ELSE NewClientFail(from)
    /\ UNCHANGED <<snLiteral, snTransport, snRemoteSudo, snPath, snOp, notSess>>

NewClientParse(ok) == NewClientStep("new", "auth", ok)
NewClientAuth(ok) == NewClientStep("auth", "verifier", ok)
NewClientVerifier(ok) == NewClientStep("verifier", "callback", ok)
NewClientCallback(ok) == NewClientStep("callback", "dial", ok)

\* ssh.Dial: the handshake fails on a rejected host key, on exhausted
\* authentication or on a network error, and then there is no transport.
NewClientDial(res) ==
    /\ snPc = "dial"
    /\ IF res = "ok"
       THEN /\ snTransport' = "open"
            /\ snPc' = "probe1"
            /\ UNCHANGED <<snReturn, snFailedAt>>
       ELSE /\ NewClientFail(res)
            /\ UNCHANGED snTransport
    /\ UNCHANGED <<snLiteral, snRemoteSudo, snPath, snOp, notSess>>

\* detectRemoteSudo, first probe: RunCommand("docker ps").
RemoteProbeUnprivileged(ok) ==
    /\ snPc = "probe1"
    /\ IF ok
       THEN /\ snRemoteSudo' = "notrequired"
            /\ snPc' = "returned" /\ snReturn' = "client"
       ELSE /\ snPc' = "probe2"
            /\ UNCHANGED <<snRemoteSudo, snReturn>>
    /\ UNCHANGED <<snFailedAt, snLiteral, snTransport, snPath, snOp, notSess>>

\* Mutant: the transport is left open when remote detection fails.
TransportLeakedAfterDetectError(t) == t

\* client.go:78-81: client.Close() before the error is returned.
TransportAfterDetectError(t) == "closed"

\* detectRemoteSudo, second probe: RunCommand("sudo -n docker ps").
RemoteProbeElevated(ok) ==
    /\ snPc = "probe2"
    /\ IF ok
       THEN /\ snRemoteSudo' = "required"
            /\ snPc' = "returned" /\ snReturn' = "client"
            /\ UNCHANGED <<snFailedAt, snTransport>>
       ELSE /\ snTransport' = TransportAfterDetectError(snTransport)
            /\ NewClientFail("detect")
            /\ UNCHANGED snRemoteSudo
    /\ UNCHANGED <<snLiteral, snPath, snOp, notSess>>

\* CreateDirectory, RemoveFile and RemoveDirectory on the Client NewClient
\* returned, or on a bare &Client{}: sanitize, the deny-list test (if the
\* operation has one), escape, RunCommand.
RemoteFileOp(op, runOk) ==
    /\ snPc = "returned" /\ snReturn = "client"
    /\ LET path == snPath
           safePath == SanitizePathForRemote(path)
           refused == Refuses(op, safePath)
           res == IF refused THEN "refused"
                  ELSE RunCommandResult(snTransport, runOk)
       IN  /\ (refused \/ snTransport # "open") => runOk   \* runOk is read only when run
           /\ snOp' = [op |-> op, path |-> path, safePath |-> safePath, res |-> res,
                       cmd |-> IF refused THEN <<>>
                               ELSE <<RemoteVerb(op)>> \o ShellEscape(safePath),
                       ran |-> res \in {"ok", "failed"} /\ snTransport = "open"]
    /\ UNCHANGED <<snPc, snReturn, snFailedAt, snLiteral, snTransport, snRemoteSudo,
                   snPath, notSess>>

\* Client.Close
ClientClose ==
    /\ snPc = "returned" /\ snReturn = "client" /\ snTransport = "open"
    /\ snTransport' = "closed"
    /\ UNCHANGED <<snPc, snReturn, snFailedAt, snLiteral, snRemoteSudo, snPath, snOp, notSess>>

RemoteOps == {"createDir", "removeFile", "removeDir"}
DialOutcomes == {"ok", "hostkey", "authentication", "network"}

\* NewClient is about to be called, or the Client is a bare &Client{}
SessInit ==
    /\ CoreFresh /\ DetFresh /\ MainFresh /\ LaterFresh
    /\ snLiteral \in BOOLEAN
    /\ snPc = IF snLiteral THEN "returned" ELSE "new"
    /\ snReturn = IF snLiteral THEN "client" ELSE "none"
    /\ snFailedAt = "none" /\ snTransport = "none" /\ snRemoteSudo = "unset"
    /\ snPath \in Paths
    /\ snOp = NoRemoteOp

SessNext ==
    \/ \E ok \in BOOLEAN : NewClientParse(ok)
    \/ \E ok \in BOOLEAN : NewClientAuth(ok)
    \/ \E ok \in BOOLEAN : NewClientVerifier(ok)
    \/ \E ok \in BOOLEAN : NewClientCallback(ok)
    \/ \E res \in DialOutcomes : NewClientDial(res)
    \/ \E ok \in BOOLEAN : RemoteProbeUnprivileged(ok)
    \/ \E ok \in BOOLEAN : RemoteProbeElevated(ok)
    \/ \E op \in RemoteOps, runOk \in BOOLEAN : RemoteFileOp(op, runOk)
    \/ ClientClose

SpecSession == SessInit /\ [][SessNext]_vars

(***************************************************************************)
(* Part V.  runMigration and ValidateConfig                                *)
(***************************************************************************)
\* strings.TrimSpace(s) == "" for a sequence of symbols
IsBlank(s) == \A i \in 1..Len(s) : s[i] = " "

\* strings.Split(s, "@"): the number of parts is the number of "@" plus one
CountAt(s) == Cardinality({i \in 1..Len(s) : s[i] = "@"})
FirstAt(s) == CHOOSE i \in 1..Len(s) : s[i] = "@" /\ \A j \in 1..(i - 1) : s[j] # "@"

\* Mutant: the conflicting-flags test is missing.
ValidateConfigNoConflictTest(c) ==
    IF Len(c.containers) = 0 THEN "no_containers"
    ELSE IF \E i \in 1..Len(c.containers) : c.containers[i] \in {"", " "}
    THEN "empty_container"
    ELSE IF c.remoteHost = <<>> THEN "no_remote_host"
    ELSE IF CountAt(c.remoteHost) = 0 THEN "remote_host_format"
    ELSE IF CountAt(c.remoteHost) # 1 THEN "remote_host_format"
    ELSE IF IsBlank(SubSeq(c.remoteHost, 1, FirstAt(c.remoteHost) - 1))
    THEN "empty_user"
    ELSE IF IsBlank(SubSeq(c.remoteHost, FirstAt(c.remoteHost) + 1, Len(c.remoteHost)))
    THEN "empty_host"
    ELSE IF ~c.sshPort.empty /\ ~c.sshPort.number THEN "port_not_number"
    ELSE IF ~c.sshPort.empty /\ (c.sshPort.value < 1 \/ c.sshPort.value > 65535)
    THEN "port_range"
    ELSE IF c.tempDir = "relative" THEN "temp_dir_relative"
    ELSE IF c.remoteTempDir = "relative" THEN "remote_temp_dir_relative"
    ELSE IF c.sshKeyPath = "missing" THEN "ssh_key_missing"
    ELSE IF c.knownHostsFile = "missing" /\ c.strict THEN "known_hosts_missing"
    ELSE "nil"

\* migrator.ValidateConfig: the first failing test, or "nil". A container
\* name is "", " " (blank) or a name; a directory is "" (unset), relative or
\* absolute; a file path is "" (unset), existing or missing.
ValidateConfig(c) ==
    IF Len(c.containers) = 0 THEN "no_containers"
    ELSE IF \E i \in 1..Len(c.containers) : c.containers[i] \in {"", " "}
    THEN "empty_container"
    ELSE IF c.remoteHost = <<>> THEN "no_remote_host"
    ELSE IF CountAt(c.remoteHost) = 0 THEN "remote_host_format"
    ELSE IF CountAt(c.remoteHost) # 1 THEN "remote_host_format"
    ELSE IF IsBlank(SubSeq(c.remoteHost, 1, FirstAt(c.remoteHost) - 1))
    THEN "empty_user"
    ELSE IF IsBlank(SubSeq(c.remoteHost, FirstAt(c.remoteHost) + 1, Len(c.remoteHost)))
    THEN "empty_host"
    ELSE IF ~c.sshPort.empty /\ ~c.sshPort.number THEN "port_not_number"
    ELSE IF ~c.sshPort.empty /\ (c.sshPort.value < 1 \/ c.sshPort.value > 65535)
    THEN "port_range"
    ELSE IF c.tempDir = "relative" THEN "temp_dir_relative"
    ELSE IF c.remoteTempDir = "relative" THEN "remote_temp_dir_relative"
    ELSE IF c.strict /\ c.accept THEN "conflicting_flags"
    ELSE IF c.sshKeyPath = "missing" THEN "ssh_key_missing"
    ELSE IF c.knownHostsFile = "missing" /\ c.strict THEN "known_hosts_missing"
    ELSE "nil"

\* migrator.NewMigrator: its own two tests (migrator.go:137-143)
NewMigratorError(c) ==
    IF Len(c.containers) = 0 THEN "no_containers"
    ELSE IF c.remoteHost = <<>> THEN "no_remote_host"
    ELSE "nil"

\* runMigration lines 119-122: ValidateConfig; an error is returned at once.
MainValidate ==
    /\ mnPc = "validate"
    /\ IF ValidateConfig(mnCfg) = "nil"
       THEN mnPc' = "validated" /\ UNCHANGED mnRet
       ELSE mnPc' = "done" /\ mnRet' = "config"
    /\ UNCHANGED <<mnCfg, mnValidateOnly, mnMigrator, trustVars, mig, detVars, sessVars, later>>

\* runMigration lines 124-141: --validate-only returns nil after validation.
MainValidateOnly ==
    /\ mnPc = "validated" /\ mnValidateOnly
    /\ mnPc' = "done" /\ mnRet' = "nil"
    /\ UNCHANGED <<mnCfg, mnValidateOnly, mnMigrator, trustVars, mig, detVars, sessVars, later>>

\* runMigration lines 143-147: NewMigrator.
MainNewMigrator ==
    /\ mnPc = "validated" /\ ~mnValidateOnly
    /\ IF NewMigratorError(mnCfg) = "nil"
       THEN mnPc' = "migrate" /\ mnMigrator' = TRUE /\ UNCHANGED mnRet
       ELSE mnPc' = "done" /\ mnRet' = "migrator" /\ UNCHANGED mnMigrator
    /\ UNCHANGED <<mnCfg, mnValidateOnly, trustVars, mig, detVars, sessVars, later>>

\* runMigration lines 149-154, Migrate's first phase: the steps of Migrate
\* are those of Part II; this part follows them through Phase 1.
MainInitDocker(p1, p2) == mnPc = "migrate" /\ InitDocker(p1, p2)
MainInitSSH(ok) == mnPc = "migrate" /\ InitSSH(ok)

\* Migrate has returned an error in Phase 1; runMigration returns it.
MainMigrateFailed ==
    /\ mnPc = "migrate" /\ pc = "done" /\ ret # "ok"
    /\ mnPc' = "done" /\ mnRet' = "migrate"
    /\ UNCHANGED <<mnCfg, mnValidateOnly, mnMigrator, trustVars, mig, detVars, sessVars, later>>

\* findAt / findColon: the position of the first occurrence, 0 when absent
IndexOfFirst(s, ch) ==
    IF \E i \in 1..Len(s) : s[i] = ch
    THEN CHOOSE i \in 1..Len(s) : s[i] = ch /\ \A j \in 1..(i - 1) : s[j] # ch
    ELSE 0
findAt(s) == IndexOfFirst(s, "@")
findColon(s) == IndexOfFirst(s, ":")

\* ssh.parseHostPort without its two error returns: the port is "22" unless
\* the part after the first "@" holds a ":"; the user is $USER when the
\* string has no "@".
parseHostPort(hostStr) ==
    LET at == findAt(hostStr)
        rest == IF at # 0 THEN SubSeq(hostStr, at + 1, Len(hostStr)) ELSE hostStr
        colon == findColon(rest)
    IN  [user |-> IF at # 0 THEN SubSeq(hostStr, 1, at - 1) ELSE <<"$USER">>,
         host |-> IF colon # 0 THEN SubSeq(rest, 1, colon - 1) ELSE rest,
         port |-> IF colon # 0 THEN SubSeq(rest, colon + 1, Len(rest)) ELSE <<"22">>]

\* The port of the address ssh.NewClient dials for a Config: Migrate hands
\* NewClient the target string, the key path and the host key options, and
\* NewClient formats host:port from parseHostPort's result.
DialPort(c) == parseHostPort(c.remoteHost).port

\* the text of the --ssh-port flag
PortText(p) ==
    IF p.empty THEN <<>> ELSE IF ~p.number THEN <<"x">> ELSE <<ToString(p.value)>>

\* main.go:80-83: the flag defaults of the host key options, and the
\* configuration runMigration builds when --accept-host-key is the only host
\* key option given
StrictHostKeyCheckingDefault == TRUE
AcceptHostKeyOnlyConfig ==
    [ValidConfig EXCEPT !.strict = StrictHostKeyCheckingDefault, !.accept = TRUE]

ContainerInputs == {<<>>, <<"c">>, <<" ">>, <<"c", "">>}
RemoteHostInputs ==
    {<<>>, <<"a">>, <<"@", "a">>, <<"a", "@">>, <<"a", "@", "a">>, <<" ", "@", "a">>,
     <<"a", "@", "a", "@", "a">>, <<"a", "@", "a", ":", "2222">>}
PortInputs == {PortEmpty, PortNotNumber} \cup {PortNumber(n) : n \in {0, 22, 2222, 65536}}
DirInputs == {"", "relative", "absolute"}
FileInputs == {"", "existing", "missing"}

\* runMigration has built the Config from the flags and arguments
MainInit ==
    /\ CoreFresh /\ DetFresh /\ SessFresh /\ LaterFresh
    /\ mnPc = "validate" /\ mnMigrator = FALSE /\ mnRet = "none"
    /\ mnValidateOnly \in BOOLEAN
    /\ mnCfg \in [containers : ContainerInputs, remoteHost : RemoteHostInputs,
                  sshPort : PortInputs, tempDir : DirInputs, remoteTempDir : DirInputs,
                  strict : BOOLEAN, accept : BOOLEAN, sshKeyPath : FileInputs,
                  knownHostsFile : FileInputs]

MainNext ==
    \/ MainValidate
    \/ MainValidateOnly
    \/ MainNewMigrator
    \/ \E p1 \in BOOLEAN, p2 \in BOOLEAN : MainInitDocker(p1, p2)
    \/ \E ok \in BOOLEAN : MainInitSSH(ok)
    \/ MainMigrateFailed

SpecMain == MainInit /\ [][MainNext]_vars

(***************************************************************************)
(* Part VI.  Volume discovery: Client.GetAllVolumesInfo                    *)
(***************************************************************************)
notDisc == <<trustVars, mig, detVars, sessVars, mainVars, shVars, wrVars, estVars, stageVars>>

Containers == 1..NumContainers

\* volumeMap[volumeName] = &VolumeInfo{...}: of the VolumeInfo the model
\* keeps Name (the key) and Container.
MapPut(m, v, c) == [n \in DOMAIN m \cup {v} |-> IF n = v THEN c ELSE m[n]]

\* Mutant: the map is not consulted before a name is recorded.
AlreadyInMapIgnored(m, v) == FALSE

\* volume.go:88-90: "if _, exists := volumeMap[volumeName]; exists { continue }"
AlreadyInMap(m, v) == v \in DOMAIN m

\* the inner loop over the volumes ListVolumes returned for one container;
\* the mount path and size queries only fill the other fields of the record
\* and their errors are replaced by "N/A" / "Unknown".
RECURSIVE AddVolumes(_, _, _)
AddVolumes(m, c, vols) ==
    IF vols = <<>> THEN m
    ELSE AddVolumes(IF AlreadyInMap(m, Head(vols)) THEN m ELSE MapPut(m, Head(vols), c),
                    c, Tail(vols))

\* one iteration of the outer loop: ListVolumes for the next container; an
\* error returns at once, otherwise its volumes are added to the map.
DiscoverContainer(res) ==
    /\ ~dvResult.returned /\ Len(listed) < Len(containerNames)
    /\ ~res.ok => res.volumes = <<>>
    /\ LET c == containerNames[Len(listed) + 1]
       IN  /\ listed' = Append(listed, [container |-> c, ok |-> res.ok,
                                        volumes |-> res.volumes])
           /\ IF res.ok
              THEN volumeMap' = AddVolumes(volumeMap, c, res.volumes) /\ UNCHANGED dvResult
              ELSE /\ dvResult' = [returned |-> TRUE, err |-> TRUE, volumes |-> <<>>]
                   /\ UNCHANGED volumeMap
    /\ UNCHANGED <<containerNames, notDisc>>

\* order lists every key of the map once
IsKeyOrder(m, order) ==
    /\ Len(order) = Cardinality(DOMAIN m)
    /\ {order[i] : i \in 1..Len(order)} = DOMAIN m

\* volume.go:113-119: the map is converted to a slice, in the iteration
\* order of the map, which Go leaves unspecified.
DiscoverReturn(order) ==
    /\ ~dvResult.returned /\ Len(listed) = Len(containerNames)
    /\ IsKeyOrder(volumeMap, order)
    /\ dvResult' = [returned |-> TRUE, err |-> FALSE,
                    volumes |-> [i \in 1..Len(order) |->
                                    [Name |-> order[i], Container |-> volumeMap[order[i]]]]]
    /\ UNCHANGED <<containerNames, listed, volumeMap, notDisc>>

ListResults ==
    [ok : {FALSE}, volumes : {<<>>}] \cup [ok : {TRUE}, volumes : SeqsUpTo(Vols, MaxMounts)]

DiscInit ==
    /\ CoreFresh /\ DetFresh /\ SessFresh /\ MainFresh /\ ShellFresh /\ WrapFresh
    /\ EstimateFresh /\ StageFresh
    /\ containerNames \in SeqsUpTo(Containers, MaxContainerList)
    /\ listed = <<>> /\ volumeMap = <<>> /\ dvResult = NoResult

DiscNext ==
    \/ \E res \in ListResults : DiscoverContainer(res)
    \/ \E order \in SeqsUpTo(Vols, NumVolumes) : DiscoverReturn(order)

SpecDiscover == DiscInit /\ [][DiscNext]_vars

(***************************************************************************)
(* Part VII.  Package shell                                                *)
(***************************************************************************)
notShell == <<trustVars, mig, detVars, sessVars, mainVars, discVars, wrVars, estVars, stageVars>>

\* A string is a sequence of characters: "a" stands for any letter or
\* digit, the others for themselves. "a..a" stands for a run of letters two
\* short of the longest volume name; a long string is that run followed by
\* up to MaxStrLen - 1 characters.
Chars == {"a", ".", "/", "-", "_", "'", "\\", " ", ";"}
MaxNameLength == 255
LongRun == "a..a"
LongRunLength == MaxNameLength - 2
Strings ==
    SeqsUpTo(Chars, MaxStrLen) \cup {<<LongRun>> \o t : t \in SeqsUpTo(Chars, MaxStrLen - 1)}

\* len(name)
RECURSIVE StrLen(_)
StrLen(name) ==
    IF name = <<>> THEN 0
    ELSE (IF Head(name) = LongRun THEN LongRunLength ELSE 1) + StrLen(Tail(name))

\* Mutant: a name may start with '-' or '.'.
ValidateVolumeNameAnyStart(name) ==
    /\ name # <<>> /\ StrLen(name) <= MaxNameLength
    /\ ~ContainsPair(name, ".", ".")
    /\ \A i \in 1..Len(name) : name[i] \in {"a", LongRun, "-", "_", "."}

\* shell.ValidateVolumeName
ValidateVolumeName(name) ==
    /\ name # <<>> /\ StrLen(name) <= MaxNameLength
    /\ name[1] \notin {"-", "."}
    /\ ~ContainsPair(name, ".", ".")
    /\ \A i \in 1..Len(name) : name[i] \notin {"/", "\\"}
    /\ \A i \in 1..Len(name) : name[i] \in {"a", LongRun, "-", "_", "."}

CallShellEscape ==
    /\ shOut = NoShellCall
    /\ shOut' = [fn |-> "ShellEscape", text |-> ShellEscape(shIn), ok |-> TRUE,
                 err |-> "none"]
    /\ UNCHANGED <<shIn, notShell>>

CallSanitizePathForRemote ==
    /\ shOut = NoShellCall
    /\ shOut' = [fn |-> "SanitizePathForRemote", text |-> SanitizePathForRemote(shIn),
                 ok |-> TRUE, err |-> "none"]
    /\ UNCHANGED <<shIn, notShell>>

CallValidateVolumeName ==
    /\ shOut = NoShellCall
    /\ shOut' = [fn |-> "ValidateVolumeName", text |-> <<>>, ok |-> ValidateVolumeName(shIn),
                 err |-> "none"]
    /\ UNCHANGED <<shIn, notShell>>

\* ExportVolumes, one iteration: ExportVolume(name) validates the name, then
\* runs the export command; the archive path is recorded in the archivePaths
\* map only if ExportVolume returned nil. text: the commands that were run;
\* ok: the archive was recorded.
CallExportVolume(cmdOk) ==
    /\ shOut = NoShellCall
    /\ LET valid == ValidateVolumeName(shIn)
       IN  /\ ~valid => cmdOk                    \* cmdOk is read only when run
           /\ shOut' = [fn |-> "ExportVolume",
                        text |-> IF valid THEN <<"export">> ELSE <<>>,
                        ok |-> valid /\ cmdOk,
                        err |-> IF ~valid THEN "invalid"
                                ELSE IF ~cmdOk THEN "export" ELSE "ok"]
    /\ UNCHANGED <<shIn, notShell>>

\* ImportVolume(name): text: the docker commands that were run; ok: it
\* returned nil.
CallImportVolume(createOk, populateOk, rmOk) ==
    /\ shOut = NoShellCall
    /\ LET valid == ValidateVolumeName(shIn)
           cmds == ImportVolumeCommands(valid, createOk, populateOk)
           err == ImportVolumeError(valid, createOk, populateOk, rmOk)
       IN  \* the outcome of a command is read only when it is run
           /\ ~Ran(cmds, "create") => createOk
           /\ ~Ran(cmds, "populate") => populateOk
           /\ ~Ran(cmds, "remove") => rmOk
           /\ shOut' = [fn |-> "ImportVolume", text |-> cmds, ok |-> err = "ok",
                        err |-> err]
    /\ UNCHANGED <<shIn, notShell>>

ShellInit ==
    /\ CoreFresh /\ DetFresh /\ SessFresh /\ MainFresh /\ DiscFresh /\ WrapFresh
    /\ EstimateFresh /\ StageFresh
    /\ shIn \in Strings /\ shOut = NoShellCall

ShellNext ==
    \/ CallShellEscape
    \/ CallSanitizePathForRemote
    \/ CallValidateVolumeName
    \/ \E cmdOk \in BOOLEAN : CallExportVolume(cmdOk)
    \/ \E c \in BOOLEAN, p \in BOOLEAN, r \in BOOLEAN : CallImportVolume(c, p, r)

SpecShell == ShellInit /\ [][ShellNext]_vars

(***************************************************************************)
(* Part VIII.  Managed docker commands                                     *)
(*                                                                         *)
(* The local detector is the one docker.NewClient resolves (InitDocker of  *)
(* Part II), the remote one is set by NewClient of Part IV. A command is a *)
(* sequence of words; the remote command line is the words joined by       *)
(* single blanks.                                                          *)
(***************************************************************************)
\* Mutant: the local command is never prefixed.
WrapCommandArgvNoSudo(required, args) == <<"docker">> \o args

\* SudoDetector.WrapCommand: exec.CommandContext(ctx, "sudo", "docker",
\* args...) when sd.required, else exec.CommandContext(ctx, "docker", args...)
WrapCommandArgv(required, args) ==
    IF required THEN <<"sudo">> \o (<<"docker">> \o args) ELSE <<"docker">> \o args

\* the for loop of RunDockerCommand: cmd += " " + arg
RECURSIVE AppendArgs(_, _)
AppendArgs(cmd, args) ==
    IF args = <<>> THEN cmd ELSE AppendArgs(Append(cmd, Head(args)), Tail(args))

\* Client.RunDockerCommand: "sudo docker" when c.remoteSudo, else "docker",
\* then every argument
DockerCommandLine(remoteSudo, args) ==
    AppendArgs(IF remoteSudo THEN <<"sudo", "docker">> ELSE <<"docker">>, args)

\* WrapCommand holds sd.mu while it reads sd.required; sd.required is true
\* only once Detect has resolved the detector to Required.
WrapCommand(args) ==
    /\ managed' = [managed EXCEPT !.local =
                       [built |-> TRUE, state |-> dockerSudo, args |-> args,
                        argv |-> WrapCommandArgv(dockerSudo = "required", args),
                        res |-> "built"]]
    /\ UNCHANGED <<trustVars, mig, detVars, sessVars, mainVars, discVars, shVars, estVars,
                   stageVars>>

\* RunDockerCommand on the Client NewClient returned, or on a bare
\* &Client{}: c.remoteSudo is false unless detectRemoteSudo set it.
RunDockerCommand(args, runOk) ==
    /\ snPc = "returned" /\ snReturn = "client"
    /\ snTransport # "open" => runOk            \* runOk is read only when run
    /\ managed' = [managed EXCEPT !.remote =
                       [built |-> TRUE, state |-> snRemoteSudo, args |-> args,
                        argv |-> DockerCommandLine(snRemoteSudo = "required", args),
                        res |-> RunCommandResult(snTransport, runOk)]]
    /\ UNCHANGED <<trustVars, mig, detVars, sessVars, mainVars, discVars, shVars, estVars,
                   stageVars>>

ArgLists == {<<>>, <<"ps", "-a">>, <<"volume", "ls">>}

WrapInit ==
    /\ CoreFresh /\ DetFresh /\ MainFresh /\ DiscFresh /\ ShellFresh /\ EstimateFresh
    /\ StageFresh
    /\ snLiteral \in BOOLEAN
    /\ snPc = IF snLiteral THEN "returned" ELSE "new"
    /\ snReturn = IF snLiteral THEN "client" ELSE "none"
    /\ snFailedAt = "none" /\ snTransport = "none" /\ snRemoteSudo = "unset"
    /\ snPath = <<>> /\ snOp = NoRemoteOp
    /\ managed = [local |-> NoCommand, remote |-> NoCommand]

WrapNext ==
    \/ \E p1 \in BOOLEAN, p2 \in BOOLEAN : InitDocker(p1, p2)
    \/ \E ok \in BOOLEAN :
          \/ NewClientParse(ok)
          \/ NewClientAuth(ok)
          \/ NewClientVerifier(ok)
          \/ NewClientCallback(ok)
          \/ RemoteProbeUnprivileged(ok)
          \/ RemoteProbeElevated(ok)
    \/ \E res \in DialOutcomes : NewClientDial(res)
    \/ ClientClose
    \/ \E args \in ArgLists : WrapCommand(args)
    \/ \E args \in ArgLists, runOk \in BOOLEAN : RunDockerCommand(args, runOk)

SpecWrap == WrapInit /\ [][WrapNext]_vars

(***************************************************************************)
(* Part IX.  Space estimator                                               *)
(***************************************************************************)
\* the sizes of TestCalculateRequiredSpace that are below 2^27
TestSizes == {1000000, 1048576, 104857600}
Totals == 0..MaxTotal \cup TestSizes

CallCalculateRequiredSpace ==
    /\ ~estimate.called
    /\ estimate' = [called |-> TRUE, total |-> estimate.total,
                    required |-> CalculateRequiredSpace(estimate.total)]
    /\ UNCHANGED <<trustVars, mig, detVars, sessVars, mainVars, discVars, shVars, wrVars,
                   stageVars>>

EstimateInit ==
    /\ CoreFresh /\ DetFresh /\ SessFresh /\ MainFresh
    /\ DiscFresh /\ ShellFresh /\ WrapFresh /\ StageFresh
    /\ estimate \in [called : {FALSE}, total : Totals, required : {0}]

EstimateNext == CallCalculateRequiredSpace

SpecEstimate == EstimateInit /\ [][EstimateNext]_vars

(***************************************************************************)
(* Part X.  The remote staging directory                                   *)
(*                                                                         *)
(* A path is a sequence of symbols as in Part IV. An element of a path is  *)
(* a run of symbols without "/": <<".">> is ".", <<".", ".">> is "..", and *)
(* <<"tmp", ".", ".">> is the name "tmp..".                                *)
(***************************************************************************)
notStage == <<trustVars, mig, detVars, sessVars, mainVars, discVars, shVars, wrVars, estVars>>

\* the elements of a path, empty ones dropped
RECURSIVE Elements(_, _)
Elements(p, cur) ==
    IF p = <<>> THEN (IF cur = <<>> THEN <<>> ELSE <<cur>>)
    ELSE IF Head(p) = "/"
         THEN (IF cur = <<>> THEN <<>> ELSE <<cur>>) \o Elements(Tail(p), <<>>)
    ELSE Elements(Tail(p), Append(cur, Head(p)))

\* filepath.Clean on the elements of a rooted path: "." is dropped, ".."
\* removes the element before it and is dropped at the root
RECURSIVE CleanElements(_, _)
CleanElements(es, kept) ==
    IF es = <<>> THEN kept
    ELSE IF Head(es) = <<".">> THEN CleanElements(Tail(es), kept)
    ELSE IF Head(es) = <<".", ".">>
         THEN CleanElements(Tail(es), IF kept = <<>> THEN kept
                                      ELSE SubSeq(kept, 1, Len(kept) - 1))
    ELSE CleanElements(Tail(es), Append(kept, Head(es)))

RECURSIVE JoinElements(_)
JoinElements(es) ==
    IF es = <<>> THEN <<>> ELSE (<<"/">> \o Head(es)) \o JoinElements(Tail(es))

\* filepath.Clean of a rooted path
Clean(p) ==
    LET es == CleanElements(Elements(p, <<>>), <<>>)
    IN  IF es = <<>> THEN <<"/">> ELSE JoinElements(es)

\* filepath.Join(dir, file) = Clean(dir + "/" + file)
Join(dir, file) == Clean(dir \o <<"/">> \o file)

\* filepath.Dir of a cleaned rooted path: all but the last element
Dir(p) ==
    LET es == Elements(p, <<>>)
    IN  IF Len(es) <= 1 THEN <<"/">> ELSE JoinElements(SubSeq(es, 1, Len(es) - 1))

\* filepath.Base(localPath): the archive's file name
ArchiveFile == <<"archive">>

\* filepath.IsAbs
IsAbs(p) == p # <<>> /\ p[1] = "/"

\* GetRemoteDiskSpace: cmd := fmt.Sprintf("df -Pk %s", remotePath)
DiskSpaceCommand(remotePath) == <<"df -Pk ">> \o remotePath

\* ImportVolume: importCmd := fmt.Sprintf(`run --rm -v %s:/data -v %s:/backup
\* alpine tar xzf /backup/%s -C /data`, volumeName, archiveDir, archiveFile)
ImportCommand(archiveDir) ==
    <<"run --rm -v vol:/data -v ">> \o archiveDir
        \o <<":/backup alpine tar xzf /backup/archive -C /data">>

\* Migrate, space validation: GetRemoteDiskSpace(m.sshClient, RemoteTempDir)
\* sends the df command (its result is not looked at here).
StageProbe ==
    /\ staged.probe = <<>> /\ staged.created = <<>>
    /\ staged' = [staged EXCEPT !.probe = DiskSpaceCommand(stagingDir)]
    /\ UNCHANGED <<stagingDir, notStage>>

\* transferVolumes: CreateDirectory(RemoteTempDir) runs mkdir -p on the
\* sanitized path (an error or a success of the command is not looked at
\* here).
StageCreate ==
    /\ staged.created = <<>>
    /\ staged' = [staged EXCEPT !.created = SanitizePathForRemote(stagingDir)]
    /\ UNCHANGED <<stagingDir, notStage>>

\* transferVolumes: remotePath = filepath.Join(RemoteTempDir, Base(localPath));
\* TransferFile creates filepath.Dir(remotePath) over SFTP and writes the
\* file there.
StageUpload ==
    /\ staged.created # <<>> /\ staged.uploaded = <<>>
    /\ staged' = [staged EXCEPT !.uploaded = Dir(Join(stagingDir, ArchiveFile))]
    /\ UNCHANGED <<stagingDir, notStage>>

\* ImportVolumes: remoteArchivePath = filepath.Join(remoteTempDir, Base(...));
\* ImportVolume mounts filepath.Dir(archivePath) as /backup in the command
\* it hands to RunDockerCommand.
StageImport ==
    /\ staged.uploaded # <<>> /\ staged.read = <<>>
    /\ staged' = [staged EXCEPT
                    !.read = Dir(Join(stagingDir, ArchiveFile)),
                    !.populate = ImportCommand(Dir(Join(stagingDir, ArchiveFile)))]
    /\ UNCHANGED <<stagingDir, notStage>>

\* CleanupRemote: RemoveDirectory(RemoteTempDir) runs rm -rf on the
\* sanitized path unless that is a system directory.
StageCleanup ==
    /\ staged.created # <<>> /\ ~staged.cleaned
    /\ staged' = [staged EXCEPT
                    !.cleaned = TRUE,
                    !.removed = IF IsSystemDirectory(SanitizePathForRemote(stagingDir))
                                THEN <<>> ELSE SanitizePathForRemote(stagingDir)]
    /\ UNCHANGED <<stagingDir, notStage>>

StagingSymbols == {"/", ".", " ", "tmp", "var"}

\* ValidateConfig has accepted the remote staging path: it is absolute
StageInit ==
    /\ CoreFresh /\ DetFresh /\ SessFresh /\ MainFresh
    /\ DiscFresh /\ ShellFresh /\ WrapFresh /\ EstimateFresh
    /\ stagingDir \in {p \in SeqsUpTo(StagingSymbols, MaxStagingLen) : IsAbs(p)}
    /\ staged = NotStaged

StageNext ==
    \/ StageProbe
    \/ StageCreate
    \/ StageUpload
    \/ StageImport
    \/ StageCleanup

SpecStage == StageInit /\ [][StageNext]_vars

(***************************************************************************)
(* Part I: properties                                                      *)
(***************************************************************************)
IsVerification == lastOp.op = "callback"
InStrictMode == lastOp.strict
InAcceptNewMode == UsesAcceptNewCallback(lastOp.strict, lastOp.accept)

\* C2: in every mode (strict, accept-new, default) the verification callback
\* returns success for (hostname, key) whenever the trust file already holds
\* a record for that hostname with that key.
C2_MatchingRecordSucceeds ==
    (IsVerification /\ lastOp.preKey) => lastOp.res = "ok"

\* C3: in accept-new mode a verification of (h, k2) made while the trust file
\* holds a record for h with another key, and none with k2, is rejected with
\* the key-changed error and appends no record.
C3_ChangedKeyRejected ==
    (IsVerification /\ InAcceptNewMode /\ lastOp.preHost /\ ~lastOp.preKey)
        => (lastOp.res = "changed" /\ ~lastOp.wrote)

AcceptedKeysOf(h) ==
    {acceptLog[i][2] : i \in {j \in 1..Len(acceptLog) : acceptLog[j][1] = h}}
AcceptCountOf(h) == Cardinality({j \in 1..Len(acceptLog) : acceptLog[j][1] = h})
NoInitialRecord(h) == \A r \in LinesToSet(initLines) : r[1] # h

C10_StrictNeverWrites ==
    (lastOp.op # "none" /\ InStrictMode) =>
        /\ ~lastOp.wrote /\ ~lastOp.created
        /\ (lastOp.op = "GetCallback" /\ ~lastOp.preExists)
              => (lastOp.res # "ok" /\ ~cb.valid /\ ~khExists)
        /\ (IsVerification /\ ~lastOp.preKey) => lastOp.res \in {"unknown", "changed"}

\* building a strict callback has failed on a missing file
C10_Witness ==
    /\ lastOp.op = "GetCallback" /\ InStrictMode /\ ~lastOp.preExists
    /\ lastOp.res = "loadfail" /\ ~khExists

InDefaultMode == ~lastOp.strict /\ ~lastOp.accept

\* C11: in default mode (neither strict nor accept-new) a missing trust file
\* is created empty, and verification then behaves as strict against it: a
\* host without a record is rejected and no record is ever appended.
C11_DefaultCreatesThenStrict ==
    (lastOp.op # "none" /\ InDefaultMode) =>
        /\ (lastOp.op = "GetCallback" /\ ~lastOp.preExists /\ lastOp.res # "createfail")
              => (lastOp.created /\ khExists /\ khLines = <<>>)
        /\ ~lastOp.wrote
        /\ IsVerification =>
              /\ ~lastOp.preHost => lastOp.res = "unknown"
              /\ (lastOp.preHost /\ ~lastOp.preKey) => lastOp.res = "changed"
              /\ lastOp.preKey => lastOp.res = "ok"

\* building the default-mode callback has created the missing file
C11_Witness ==
    /\ lastOp.op = "GetCallback" /\ InDefaultMode /\ ~lastOp.preExists
    /\ lastOp.created /\ lastOp.res = "ok" /\ cb.valid /\ khLines = <<>>

Returned == pc = "done"
CleanupAttempted == fs.rmLocal >= 1 /\ fs.rmRemote >= 1

\* C1: with cleanup enabled, whenever Migrate returns because the Export,
\* Transfer or Import phase failed, the removal of the local and of the
\* remote staging directory was attempted before the return.
C1_CleanupOnPhaseFailure ==
    (Returned /\ ~cfg.noCleanup /\ primary \in {"Export", "Transfer", "Import"})
        => CleanupAttempted

PopulateFailed(v) == calls["populate"][v] > 0 /\ v \notin imported

\* C4: if ImportVolume's populate step fails after the volume was created,
\* the removal of that volume is attempted exactly once and the error
\* returned is the populate error, whether the removal succeeds or fails.
C4_PopulateFailureCompensated ==
    \A v \in Vols :
        /\ PopulateFailed(v) =>
              /\ calls["create"][v] = 1
              /\ calls["remove"][v] = 1
              /\ importErr[v] = "populate"
              /\ Returned => ret = "import"
        /\ calls["remove"][v] > 0 => PopulateFailed(v)

\* populate failed, the removal failed too, and Migrate returned
C4_Witness ==
    \E v \in Vols : /\ PopulateFailed(v) /\ v \in remoteVols
                    /\ Returned /\ ret = "import"

\* C5: after the cancellation signal is delivered while Export, Transfer or
\* Import is in flight, no further volume is exported, transferred or
\* imported, and Cleanup still runs before Migrate returns.
C5_CancelAbortsPhase ==
    cancelPhase \in {"Export", "Transfer", "Import"} =>
        /\ afterCancel = 0
        /\ (Returned /\ ~cfg.noCleanup) => CleanupAttempted

\* the phases that must have succeeded before ph starts
Required(ph) ==
    {PhaseOrder[i] : i \in 1..(PhaseIndex(ph) - 1)}
        \ ((IF cfg.interactive THEN {} ELSE {"Select"})
           \cup (IF cfg.force THEN {"ValidateSpace"} ELSE {}))

\* C6: the phases run in the order Init, Discover, Select, ValidateSpace,
\* Export, Transfer, Import, each only if every earlier phase succeeded; no
\* artifact is transferred unless every selected volume was exported, and no
\* remote volume is created unless the remote staging directory was created
\* and every artifact was transferred.
C6_PhasesGated ==
    /\ \A i, j \in 1..Len(phaseLog) :
          i < j => PhaseIndex(phaseLog[i]) < PhaseIndex(phaseLog[j])
    /\ \A i \in 1..Len(phaseLog) :
          phaseLog[i] # "Cleanup" => Required(phaseLog[i]) \subseteq phaseOk
    /\ (\E v \in Vols : calls["transfer"][v] > 0) =>
          /\ volumes # {} /\ archivePaths = volumes
          /\ \A v \in volumes : calls["export"][v] = 1
    /\ (\E v \in Vols : calls["create"][v] > 0) =>
          /\ fs.madeRemote
          /\ transferred = volumes

\* the import of a volume has started
C6_Witness ==
    /\ \E v \in Vols : calls["create"][v] > 0
    /\ Cardinality(volumes) > 1

PhaseOfError(e) ==
    CASE e \in {"docker", "ssh"} -> "Init"
      [] e = "discover" -> "Discover"
      [] e = "select" -> "Select"
      [] e = "space" -> "ValidateSpace"
      [] e = "export" -> "Export"
      [] e = "transfer" -> "Transfer"
      [] e = "import" -> "Import"
      [] OTHER -> "none"

\* C7: a failure of the local or of the remote cleanup never changes
\* Migrate's result: the primary phase error if one occurred, success if all
\* phases succeeded.
C7_CleanupNeverMasks ==
    Returned =>
        /\ primary = "none" <=> ret = "ok"
        /\ primary # "none" => PhaseOfError(ret) = primary

\* both cleanups failed after a failed import; Migrate returned the import error
C7_Witness ==
    /\ Returned /\ cleanupRes.local = "fail" /\ cleanupRes.remote = "fail"
    /\ ret = "import"

ReachedDryRunTest ==
    /\ "Discover" \in phaseOk /\ volumes # {}
    /\ cfg.interactive => "Select" \in phaseOk
    /\ ~cfg.force => "ValidateSpace" \in phaseOk

\* C8: in dry-run mode Migrate returns success right after ValidateSpace and
\* performs no export-or-later action: no staging directory is created or
\* removed, nothing is exported, transferred or imported.
C8_DryRunHasNoEffect ==
    cfg.dryRun =>
        /\ fs = NoDirs
        /\ calls = NoCalls
        /\ archivePaths = {} /\ transferred = {} /\ imported = {} /\ remoteVols = {}
        /\ ~deferred
        /\ \A i \in 1..Len(phaseLog) : PhaseIndex(phaseLog[i]) <= PhaseIndex("ValidateSpace")
        /\ (Returned /\ ReachedDryRunTest) => ret = "ok"

\* a dry run over a non-empty selection has passed ValidateSpace and returned
C8_Witness ==
    /\ cfg.dryRun /\ Returned /\ ReachedDryRunTest
    /\ "ValidateSpace" \in phaseOk /\ ret = "ok"

\* C14: if both the unprivileged and the elevated local probe fail, Detect
\* returns the not-accessible error and leaves the state unresolved, and
\* Migrate aborts with that error before any connection to the remote host
\* is attempted and before any later phase runs.
C14_DetectFailureAborts ==
    /\ (pc # "start" /\ dockerSudo = "unknown") => ret = "docker"
    /\ ret = "docker" =>
          /\ dockerSudo = "unknown" /\ primary = "Init" /\ pc = "done"
          /\ ~sshAttempted /\ ~sshOpen
          /\ phaseLog = <<"Init">> /\ phaseOk = {}
          /\ calls = NoCalls /\ fs = NoDirs /\ space = NoSpace

\* both probes failed with the context still live, and Migrate has returned
C14_Witness ==
    /\ ret = "docker" /\ pc = "done" /\ ~cancelled /\ dockerSudo = "unknown"

PastSpaceCheck ==
    /\ pc \notin {"start", "ssh", "discover", "select", "space"}
    /\ primary \notin {"Init", "Discover", "Select"}
    /\ volumes # {}
ExportStarted == \E i \in 1..Len(phaseLog) : phaseLog[i] = "Export"
\* Migrate has gone past the space check and the dry-run test
Proceeded == pc = "export_mkdir" \/ ExportStarted
SomeSideShort == space.local = "short" \/ space.remote = "short"

\* C18: when force is not set and the measured available space on the local
\* or on the remote side is strictly less than the required space, Migrate
\* fails before Export starts; available space equal to the required space
\* is sufficient; when force is set no space comparison is made and Migrate
\* proceeds.
C18_SpaceGate ==
    /\ SomeSideShort =>
          /\ ~cfg.force /\ ret = "space" /\ primary = "ValidateSpace"
          /\ ~ExportStarted /\ fs = NoDirs /\ calls = NoCalls
    /\ ret = "space" => SomeSideShort
    /\ (space.local = "equal" \/ space.remote = "equal") =>
          (ret = "space" <=> SomeSideShort)
    /\ cfg.force =>
          /\ space = NoSpace /\ ret # "space"
          /\ (PastSpaceCheck /\ ~cfg.dryRun) => Proceeded

\* both sides have exactly the required space, and Export has started
C18_Witness ==
    /\ ~cfg.force /\ space.local = "equal" /\ space.remote = "equal"
    /\ ExportStarted

\* C19: a failure to measure available space, locally or remotely, is never
\* fatal: Migrate skips the comparison for that side and continues with the
\* next step as if that side had enough space.
C19_MeasureFailureNotFatal ==
    /\ space.local = "unmeasurable" =>
          /\ space.remote # "none"
          /\ ret = "space" => space.remote = "short"
    /\ space.remote = "unmeasurable" =>
          /\ ret # "space" /\ "ValidateSpace" \in phaseOk
          /\ (PastSpaceCheck /\ ~cfg.dryRun) => Proceeded

\* neither side could be measured, and Export has started
C19_Witness ==
    /\ space.local = "unmeasurable" /\ space.remote = "unmeasurable"
    /\ ExportStarted

\* C29: Import's compensating removal only ever removes a volume that this
\* run created: a remote volume that already existed under a selected name
\* before the job started still exists after the job ends, whichever step
\* of Import fails.
C29_PreExistingVolumeSurvives == clobbered = {}

\* C33: the local staging directory already exists at the moment
\* ValidateSpace measures its available space, so that with force unset a
\* locally insufficient disk is detected before Export also when the staging
\* path is the generated default that no earlier step has created: once the
\* space check has looked at the local side, that side has been measured.
C33_LocalDirExistsWhenMeasured ==
    /\ (pc = "space" /\ ~cfg.force) => LocalDirCanExist
    /\ (~cfg.tempDirGiven /\ space.local # "none") => space.local # "unmeasurable"

\* ImportVolume was called for v and returned an error
ImportFailed(v) == importErr[v] \notin {"none", "ok"}

\* C35: when importing one volume fails, Import stops at that volume without
\* rollback: volumes already imported in the same job remain created and
\* populated on the remote, only the failing volume's removal is attempted,
\* and the remaining volumes are not attempted.
C35_ImportStopsWithoutRollback ==
    \A f \in Vols : ImportFailed(f) =>
        /\ ret = "import" /\ pc # "import"
        /\ calls["remove"][f] <= 1
        /\ \A v \in Vols \ {f} :
              /\ ~ImportFailed(v) /\ calls["remove"][v] = 0
              /\ v \in imported =>
                    /\ v \in remoteVols
                    /\ calls["create"][v] = 1 /\ calls["populate"][v] = 1
              /\ importErr[v] = "none" =>
                    calls["create"][v] = 0 /\ calls["populate"][v] = 0

\* one volume is imported and stays, the next one failed to populate and
\* was removed, and Migrate has returned
C35_Witness ==
    \E f, v \in Vols :
        /\ ImportFailed(f) /\ calls["remove"][f] = 1 /\ f \notin remoteVols
        /\ v \in imported /\ v \in remoteVols
        /\ Returned

\* C39: when Migrate returns success in a run that is not a dry run and
\* whose selection is non-empty, every selected volume has been exported,
\* transferred and imported (created and populated on the remote), each
\* exactly once, and nothing was done for any other volume.
C39_SuccessMeansAllMigrated ==
    (ret = "ok" /\ ~cfg.dryRun /\ volumes # {}) =>
        /\ archivePaths = volumes /\ transferred = volumes
        /\ imported = volumes /\ volumes \subseteq remoteVols
        /\ \A v \in Vols :
              /\ calls["export"][v] = (IF v \in volumes THEN 1 ELSE 0)
              /\ calls["transfer"][v] = (IF v \in volumes THEN 1 ELSE 0)
              /\ calls["create"][v] = (IF v \in volumes THEN 1 ELSE 0)
              /\ calls["populate"][v] = (IF v \in volumes THEN 1 ELSE 0)
              /\ calls["remove"][v] = 0

\* Migrate has returned success after migrating two volumes
C39_Witness ==
    /\ Returned /\ ret = "ok" /\ ~cfg.dryRun
    /\ Cardinality(volumes) = 2 /\ imported = volumes

\* ssh.NewClient has returned a session to Migrate
SessionEstablished == "Init" \in phaseOk

\* C34: once the remote session is established it is closed on every exit
\* path of Migrate, and the remote Cleanup command is always issued before
\* that close, never on an already closed session: the session stays open
\* until Migrate's last step, the cleanup closure runs while it is open, and
\* a registered closure has issued the remote removal when Migrate is done.
C34_SessionClosedAfterCleanup ==
    /\ (Returned /\ SessionEstablished) => ~sshOpen
    /\ (SessionEstablished /\ ~Returned) => sshOpen
    /\ pc \in {"cleanup_local", "cleanup_remote"} => sshOpen
    /\ (Returned /\ deferred) => fs.rmRemote = 1
    /\ sshOpen => SessionEstablished

\* Import failed, the remote removal was issued and the session is closed
C34_Witness ==
    /\ Returned /\ ret = "import" /\ SessionEstablished
    /\ fs.rmRemote = 1 /\ ~sshOpen

(***************************************************************************)
(* Part III: properties                                                    *)
(***************************************************************************)
Probing == {c \in Callers : sdPc[c] \in {"probe1", "probe2"}}
\* callers whose call was made while no call had returned (the calls overlap)
\* and has run a probe
ConcurrentProbers == {c \in Callers : sdConc[c] /\ sdRan[c] > 0}

\* C12: when several callers invoke Detect concurrently on the same
\* unresolved detector, the probe sequence is executed by at most one of
\* them, and the others return without running any probe.
C12_SingleDetectionRun ==
    Cardinality(ConcurrentProbers) <= 1

\* C12 as amended: the probe sequences of concurrent callers never overlap;
\* a caller runs the probe sequence only while the detector is unresolved
\* (no earlier run, or every earlier run failed on both probes); at most one
\* run resolves the detector, and a caller that finds it resolved returns
\* nil without running any probe.
C12_SingleResolvingRun ==
    /\ Cardinality(Probing) <= 1
    /\ \A c \in Probing : sdMu = c /\ ~sdChecked
    /\ Cardinality({c \in ConcurrentProbers : sdRet[c] # "err"}) <= 1
    /\ \A c \in Callers : sdSawChecked[c] => (sdRan[c] = 0 /\ sdRet[c] = "nil")

\* two concurrent calls: the first failed on both probes, the second found
\* the detector unresolved, ran the probes and resolved it
C12_Witness ==
    \E c, d \in Callers :
        /\ c # d /\ sdConc[c] /\ sdConc[d]
        /\ sdRet[c] = "err" /\ sdRan[c] = 2
        /\ sdRet[d] = "nil" /\ sdRan[d] > 0 /\ sdChecked

\* C13: once a detector has resolved to Required or NotRequired the state is
\* terminal: no later Detect call runs a probe or changes the value, and
\* every later read of the state returns the same value.
C13_ResolvedIsTerminal ==
    /\ sdFirst # "none" => (sdChecked /\ (sdRequired <=> sdFirst = "required"))
    /\ sdChecked => Probing = {}
    /\ \A c \in Callers :
          /\ sdSawChecked[c] => (sdRan[c] = 0 /\ sdRet[c] = "nil")
          /\ (sdRead[c].done /\ sdRead[c].resolved) =>
                 (sdRead[c].val <=> sdFirst = "required")

\* the detector resolved to Required; a later Detect call returned without a
\* probe and two callers have read the state since
C13_Witness ==
    /\ sdFirst = "required"
    /\ \E c \in Callers : sdSawChecked[c] /\ sdPc[c] = "idle"
    /\ \A c \in Callers : sdRead[c].done /\ sdRead[c].resolved /\ sdRead[c].val

(***************************************************************************)
(* Part IV: properties                                                     *)
(***************************************************************************)
NewClientReturned == snPc = "returned" /\ ~snLiteral

\* C15: remote session construction returns either a connected session whose
\* remote privilege state is resolved, or an error and no session: a failure
\* of target parsing, authentication-material gathering, host-key
\* verification, dialing or remote privilege detection yields no session,
\* and on a remote-detection failure the already-open transport is closed.
C15_NoPartialSession ==
    /\ NewClientReturned =>
          \/ /\ snReturn = "client" /\ snFailedAt = "none"
             /\ snTransport # "none" /\ snRemoteSudo # "unset"
          \/ /\ snReturn = "error" /\ snFailedAt # "none"
             /\ snTransport # "open"
             /\ snTransport = "closed" <=> snFailedAt = "detect"
             /\ snOp = NoRemoteOp
    /\ (~snLiteral /\ snPc # "returned") => snReturn = "none"
    /\ (~snLiteral /\ snTransport = "open") => snPc \in {"probe1", "probe2", "returned"}

\* remote detection failed on both probes and the transport was closed
C15_Witness ==
    /\ NewClientReturned /\ snReturn = "error" /\ snFailedAt = "detect"
    /\ snTransport = "closed"

\* the deny-listed system paths: /, /bin, /etc, /usr, /var, /home
SystemPaths ==
    {<<"/">>} \cup {<<"/", d>> : d \in {"bin", "etc", "usr", "var", "home"}}

\* C16: each of createDir, removeFile and removeDir, given a path that
\* sanitizes to a deny-listed system path, returns an error and runs no
\* remote command.
C16_MutationsRefuseSystemPaths ==
    (snOp.op # "none" /\ snOp.safePath \in SystemPaths) =>
        (snOp.res = "refused" /\ snOp.cmd = <<>> /\ ~snOp.ran)

\* C17: removeDir on "/" or on any deny-listed system directory fails with
\* the "refusing to delete system directory" error before any command is
\* constructed and without using the connection, also on a Client that has
\* no transport.
C17_RemoveDirRefusesSystemPaths ==
    (snOp.op = "removeDir" /\ (snOp.path \in SystemPaths \/ snOp.safePath \in SystemPaths))
        => (snOp.res = "refused" /\ snOp.cmd = <<>> /\ ~snOp.ran)

\* RemoveDirectory("/") was refused on a bare &Client{}
C17_Witness ==
    /\ snLiteral /\ snTransport = "none"
    /\ snOp.op = "removeDir" /\ snOp.path = <<"/">> /\ snOp.res = "refused"

\* C32: removeDir never issues a recursive remove whose target denotes a
\* deny-listed system directory, also when the path is given in an
\* equivalent form that survives sanitization, such as with a trailing
\* slash ("/etc/") or a trailing "/." component ("/etc/.").
C32_RemoveDirNeverTargetsSystemDirectory ==
    (snOp.op = "removeDir" /\ Clean(snOp.safePath) \in SystemPaths) =>
        (snOp.cmd = <<>> /\ ~snOp.ran)

(***************************************************************************)
(* Part V: properties                                                      *)
(***************************************************************************)
\* the target has the form user@host: one "@" with a user before it and a
\* host after it
UserAtHostForm(h) ==
    \E i \in 1..Len(h) :
        /\ h[i] = "@"
        /\ \A j \in 1..Len(h) : h[j] = "@" => j = i
        /\ \E j \in 1..(i - 1) : h[j] # " "
        /\ \E j \in (i + 1)..Len(h) : h[j] # " "

\* nothing of Migrate has happened
MigrateUntouched ==
    /\ pc = "start" /\ ret = "none" /\ phaseLog = <<>>
    /\ dockerSudo = "unknown" /\ ~sshAttempted /\ ~sshOpen

\* C20: configuration errors are detected before any connection attempt:
\* when ValidateConfig rejects the configuration (for example a target not of
\* the form user@host, or strict and accept-new both enabled), the run ends
\* with that error without constructing a Migrator, probing local
\* privileges or dialing the remote host.
C20_ConfigErrorsFirst ==
    /\ (mnPc # "validate" /\ (~UserAtHostForm(mnCfg.remoteHost)
                               \/ (mnCfg.strict /\ mnCfg.accept)))
          => (mnPc = "done" /\ mnRet = "config")
    /\ mnRet = "config" => (~mnMigrator /\ MigrateUntouched)
    /\ (mnMigrator \/ ~MigrateUntouched) =>
          /\ UserAtHostForm(mnCfg.remoteHost) /\ ~(mnCfg.strict /\ mnCfg.accept)
          /\ mnCfg.containers # <<>>

\* a configuration whose only fault is strict together with accept-new was
\* rejected
C20_Witness ==
    /\ mnPc = "done" /\ mnRet = "config"
    /\ mnCfg.strict /\ mnCfg.accept
    /\ [mnCfg EXCEPT !.accept = FALSE] = ValidConfig

\* C21: invoking the tool with --accept-host-key and no other host key
\* option passes configuration validation and connects in accept-new mode
\* (the custom accept-new callback is the one GetCallback returns).
C21_AcceptHostKeyAloneConnects ==
    (mnPc # "validate" /\ mnCfg = AcceptHostKeyOnlyConfig) =>
        /\ mnRet # "config"
        /\ UsesAcceptNewCallback(mnCfg.strict, mnCfg.accept)

\* C22: the TCP port the remote session dials is the value of the SSH port
\* option whenever the remote target string carries no :port suffix.
C22_DialsConfiguredPort ==
    (sshAttempted /\ findColon(mnCfg.remoteHost) = 0) =>
        DialPort(mnCfg) = PortText(mnCfg.sshPort)

(***************************************************************************)
(* Part VI: properties                                                     *)
(***************************************************************************)
\* the containers processed so far whose volume list holds the name
Referencing(v) ==
    {k \in 1..Len(listed) :
        listed[k].ok /\ \E j \in 1..Len(listed[k].volumes) : listed[k].volumes[j] = v}
ReferencedNames == {v \in Vols : Referencing(v) # {}}
FirstOwner(v) ==
    listed[CHOOSE k \in Referencing(v) : \A l \in Referencing(v) : k <= l].container

\* C23: discovery over an ordered list of containers returns exactly one
\* volume per distinct volume name, and the owner recorded for a name is the
\* first container in the list that references it; later containers
\* referencing the same name do not change the record.
C23_FirstContainerOwns ==
    /\ DOMAIN volumeMap = ReferencedNames
    /\ \A v \in DOMAIN volumeMap : volumeMap[v] = FirstOwner(v)
    /\ (dvResult.returned /\ ~dvResult.err) =>
          LET r == dvResult.volumes
          IN  /\ {r[i].Name : i \in 1..Len(r)} = ReferencedNames
              /\ \A i, j \in 1..Len(r) : r[i].Name = r[j].Name => i = j
              /\ \A i \in 1..Len(r) : r[i].Container = FirstOwner(r[i].Name)

\* discovery over two different containers that both reference one volume
\* has returned one record for it, owned by the first
C23_Witness ==
    /\ dvResult.returned /\ ~dvResult.err
    /\ Len(listed) = 2 /\ listed[1].container # listed[2].container
    /\ \E v \in Vols :
          /\ Referencing(v) = {1, 2}
          /\ dvResult.volumes = <<[Name |-> v, Container |-> listed[1].container]>>

(***************************************************************************)
(* Part VII: properties                                                    *)
(***************************************************************************)
\* The characters a POSIX shell gives a meaning to outside quotes (of Chars:
\* the blank ends the token, ";" ends the command).
Metacharacters == {" ", ";"}

NoToken == [ok |-> FALSE, value |-> <<>>]
Lit(c, rest) == IF rest.ok THEN [ok |-> TRUE, value |-> <<c>> \o rest.value] ELSE NoToken

\* Reading one token by the POSIX quoting rules: outside quotes a backslash
\* makes the next character literal and a single quote opens a quoted part;
\* inside single quotes every character is literal up to the closing quote.
RECURSIVE TokenUnquoted(_), TokenQuoted(_)
TokenUnquoted(t) ==
    IF t = <<>> THEN [ok |-> TRUE, value |-> <<>>]
    ELSE IF t[1] = "'" THEN TokenQuoted(Tail(t))
    ELSE IF t[1] = "\\"
         THEN IF Len(t) < 2 THEN NoToken ELSE Lit(t[2], TokenUnquoted(SubSeq(t, 3, Len(t))))
    ELSE IF t[1] \in Metacharacters THEN NoToken
    ELSE Lit(t[1], TokenUnquoted(Tail(t)))
TokenQuoted(t) ==
    IF t = <<>> THEN NoToken
    ELSE IF t[1] = "'" THEN TokenUnquoted(Tail(t))
    ELSE Lit(t[1], TokenQuoted(Tail(t)))

\* the text is one token of a shell command, and its value
ParseToken(t) == IF t = <<>> THEN NoToken ELSE TokenUnquoted(t)

\* C24: for every string s, parsing escape(s) as a single POSIX-shell token
\* (single-quote rules) yields exactly s, whatever quotes, metacharacters
\* or '..' sequences s contains, and also for the empty string.
C24_EscapeRoundTrip ==
    shOut.fn = "ShellEscape" => ParseToken(shOut.text) = [ok |-> TRUE, value |-> shIn]

\* a string with a quote and a metacharacter has been escaped
C24_Witness ==
    /\ shOut.fn = "ShellEscape" /\ shIn = <<"a", "'", ";">>
    /\ shOut.text = <<"'", "a", "'", "\\", "'", "'", ";", "'">>

\* C25: for every input path, SanitizePathForRemote returns a string that
\* starts with '/', contains no '..' substring and contains no '//'
\* substring.
C25_SanitizedPathShape ==
    shOut.fn = "SanitizePathForRemote" =>
        /\ Len(shOut.text) >= 1 /\ shOut.text[1] = "/"
        /\ ~ContainsPair(shOut.text, ".", ".")
        /\ ~ContainsPair(shOut.text, "/", "/")

\* a relative path with a traversal and a doubled slash has been sanitized
C25_Witness ==
    /\ shOut.fn = "SanitizePathForRemote"
    /\ shIn = <<".", ".", "/", "/">> /\ shOut.text = <<"/">>

\* the characters of a name: letters and digits, '-', '_' and '.'
IsNameChar(c) == c \in {"a", LongRun, "-", "_", "."}

\* C26: ValidateVolumeName accepts a name exactly when it is non-empty, at
\* most 255 long, does not start with '-' or '.', consists only of letters,
\* digits, '-', '_' and '.', and contains no '..'; every other name (empty,
\* 256 long, containing '/', a backslash, a space or a shell metacharacter)
\* is rejected.
C26_IdentifierAllowList ==
    shOut.fn = "ValidateVolumeName" =>
        (shOut.ok <=>
            /\ shIn # <<>>
            /\ StrLen(shIn) <= 255
            /\ shIn[1] # "-" /\ shIn[1] # "."
            /\ \A i \in 1..Len(shIn) : IsNameChar(shIn[i])
            /\ \A i \in 1..(Len(shIn) - 1) : ~(shIn[i] = "." /\ shIn[i + 1] = "."))

\* a name of 256 letters has been rejected
C26_Witness ==
    /\ shOut.fn = "ValidateVolumeName" /\ ~shOut.ok
    /\ shIn = <<LongRun, "a", "a", "a">> /\ StrLen(shIn) = 256

\* C37: every name accepted by ValidateVolumeName is returned unchanged by
\* ShellEscape, so the volume names that Export and Import interpolate
\* unquoted into command strings can never contain a character the shell
\* interprets: the shell reads such a name back as the one word it is.
C37_ValidNamesNeedNoEscape ==
    (shOut.fn = "ShellEscape" /\ ValidateVolumeName(shIn)) =>
        /\ shOut.text = shIn
        /\ \A i \in 1..Len(shIn) : shIn[i] \notin Metacharacters \cup {"'", "\\"}
        /\ ParseToken(shIn) = [ok |-> TRUE, value |-> shIn]

\* a valid name with a dot, a dash and an underscore has been escaped
C37_Witness ==
    /\ shOut.fn = "ShellEscape" /\ shIn = <<"a", ".", "-", "_">>
    /\ ValidateVolumeName(shIn) /\ shOut.text = shIn

\* C36: Export and Import each validate a volume's name before doing
\* anything for that volume: for a name rejected by ValidateVolumeName no
\* export command is run and no archive is recorded (Export), no remote
\* volume is created (Import), and the call fails with the invalid-name
\* error; that error is returned for no other name.
C36_NameValidatedFirst ==
    shOut.fn \in {"ExportVolume", "ImportVolume"} =>
        /\ ~ValidateVolumeName(shIn) =>
              (shOut.text = <<>> /\ ~shOut.ok /\ shOut.err = "invalid")
        /\ shOut.err = "invalid" => ~ValidateVolumeName(shIn)

\* ImportVolume was called with a name that holds a ';' and ran nothing
C36_Witness ==
    /\ shOut.fn = "ImportVolume" /\ shIn = <<"a", ";", "a">>
    /\ shOut.text = <<>> /\ shOut.err = "invalid"

(***************************************************************************)
(* Part VIII: properties                                                   *)
(***************************************************************************)
\* the command is the elevation command, then docker, then the arguments
Elevated(c) == c.argv = <<"sudo", "docker">> \o c.args
\* the command is docker and the arguments
AsIs(c) == c.argv = <<"docker">> \o c.args

\* C27: a managed command is prefixed with the elevation command exactly
\* when the detector's state is Required and is left as-is otherwise, both
\* locally (WrapCommand) and remotely (RunDockerCommand), with the caller's
\* arguments appended unchanged and in order.
C27_ElevatedIffRequired ==
    /\ managed.local.built =>
          /\ managed.local.state \in {"unknown", dockerSudo}
          /\ IF managed.local.state = "required"
             THEN Elevated(managed.local) ELSE AsIs(managed.local)
    /\ managed.remote.built =>
          /\ managed.remote.state = snRemoteSudo
          /\ IF managed.remote.state = "required"
             THEN Elevated(managed.remote) ELSE AsIs(managed.remote)

\* with both detectors resolved to Required a command with two arguments
\* has been built on each side
C27_Witness ==
    /\ dockerSudo = "required" /\ snRemoteSudo = "required"
    /\ managed.local.state = "required"
    /\ managed.local.argv = <<"sudo", "docker", "volume", "ls">>
    /\ managed.remote.argv = <<"sudo", "docker", "ps", "-a">> /\ managed.remote.res = "ok"

(***************************************************************************)
(* Part IX: properties                                                     *)
(***************************************************************************)
\* C28: the required space is the selected total plus a flat 10% buffer:
\* for every non-negative total size within bounds,
\* requiredSpace(total) - total equals total div 10, and
\* requiredSpace(1_000_000) is exactly 1_100_000.
C28_TenPercentBuffer ==
    estimate.called =>
        /\ estimate.required - estimate.total = estimate.total \div 10
        /\ estimate.total = 1000000 => estimate.required = 1100000

\* the estimate for one million bytes has been computed
C28_Witness ==
    estimate.called /\ estimate.total = 1000000 /\ estimate.required = 1100000

(***************************************************************************)
(* Part X: properties                                                      *)
(***************************************************************************)
\* two paths name the same directory (no symbolic links)
SameDirectory(a, b) == Clean(a) = Clean(b)

\* C30: for every remote staging path accepted by ValidateConfig, the
\* directory created at the start of Transfer, the directory each artifact
\* is uploaded into, the directory Import reads the artifacts from, and the
\* directory the remote Cleanup removes are one and the same path (also
\* when the configured path contains '..' or repeated '/').
C30_OneStagingDirectory ==
    /\ staged.uploaded # <<>> => SameDirectory(staged.created, staged.uploaded)
    /\ staged.read # <<>> => SameDirectory(staged.uploaded, staged.read)
    /\ staged.removed # <<>> => SameDirectory(staged.created, staged.removed)
    /\ (staged.removed # <<>> /\ staged.uploaded # <<>>) =>
          SameDirectory(staged.uploaded, staged.removed)

\* the text between the fixed head and the fixed tail of a command
Embedded(cmd) == SubSeq(cmd, 2, Len(cmd) - 1)

\* C31: every remote command string the orchestrator sends embeds
\* user-configured paths only after escaping: the remote staging path is
\* passed through escape before it is embedded in the remote disk-space
\* probe and in the import (populate) command, so that the shell reads it
\* back as the one word that was embedded.
C31_StagingPathEscaped ==
    /\ staged.probe # <<>> =>
          ParseToken(Tail(staged.probe)) = [ok |-> TRUE, value |-> stagingDir]
    /\ staged.populate # <<>> =>
          ParseToken(Embedded(staged.populate)) = [ok |-> TRUE, value |-> staged.read]

====
